---- MODULE Spec2Model ----
(***************************************************************************)
(* Request execution core of the tunnel REST client: executeRequest, the   *)
(* ClientError type, the retry classifier isErrorRetryable with its two    *)
(* package-level tables, and the URL sanitizer.                            *)
(***************************************************************************)
EXTENDS FiniteSets, Integers, Sequences, TLC

VARIABLES
    RetryableStatusCodes,   \* package variable, client_errors.go:28
    RetryableErrorMessages, \* package variable, client_errors.go:21
    call,                   \* one record per executeRequest call
    cls,                    \* the classifier applied on its own to one error
    gen,                    \* generateURL and the sanitizer applied to one URL
    hdr,                    \* the headers executeRequest puts on one request
    txt,                    \* Error() and Short() called on one ClientError
    op,                     \* one public operation of a client
    scan                    \* isErrorRetryable, statement by statement, on one error

vars == <<RetryableStatusCodes, RetryableErrorMessages, call, cls, gen, hdr, txt, op, scan>>

\* nil, for a pointer, an interface value or an error
Nil == [nil |-> TRUE]

-----------------------------------------------------------------------------
(* Strings.  Go strings are TLA+ strings; TLC evaluates Len, \o and SubSeq  *)
(* on them.                                                                 *)

\* strings.Contains(s, substr)
Contains(s, substr) ==
    \E i \in 0..(Len(s) - Len(substr)) : SubSeq(s, i + 1, i + Len(substr)) = substr

\* strings.Index(s, ch) for a one-character ch, 1-based; 0 when absent
Index(s, ch) ==
    IF \E i \in 1..Len(s) : SubSeq(s, i, i) = ch
    THEN CHOOSE i \in 1..Len(s) :
            /\ SubSeq(s, i, i) = ch
            /\ \A j \in 1..(i - 1) : SubSeq(s, j, j) # ch
    ELSE 0

\* strings.HasPrefix(s, prefix)
HasPrefix(s, prefix) ==
    Len(s) >= Len(prefix) /\ SubSeq(s, 1, Len(prefix)) = prefix

\* s[:i-1] and s[i+1:] around the 1-based position i
Before(s, i) == SubSeq(s, 1, i - 1)
After(s, i) == SubSeq(s, i + 1, Len(s))

-----------------------------------------------------------------------------
(* HTTP status codes, net/http constants used by the package.               *)

StatusOK == 200
StatusMultipleChoices == 300
StatusRequestTimeout == 408
StatusConflict == 409
StatusTooManyRequests == 429
StatusInternalServerError == 500
StatusBadGateway == 502
StatusServiceUnavailable == 503
StatusGatewayTimeout == 504

-----------------------------------------------------------------------------
(* Errors.  An error value is a record of its message (Error()) and of the  *)
(* sentinels errors.Is finds in its chain.                                  *)

NewError(msg, is) == [msg |-> msg, is |-> is]

ErrNullReader == NewError("can't decode JSON from a null reader", {"ErrNullReader"})
ErrNullWriter == NewError("can't decode JSON from a null writer", {"ErrNullWriter"})
ErrRequestFailed == NewError("HTTP request failed", {"ErrRequestFailed"})
ErrMissingRegions == NewError("missing \"regions\" information", {"ErrMissingRegions"})

\* A timeout detection that takes a cancelled context for an expired one.
IsDeadlineExceeded_OrCanceled(err) ==
    "DeadlineExceeded" \in err.is \/ "Canceled" \in err.is

\* errors.Is(err, context.DeadlineExceeded)
IsDeadlineExceeded(err) == "DeadlineExceeded" \in err.is

\* fmt.Errorf(prefix + ": %w", err)
Wrap(prefix, err) == NewError(prefix \o ": " \o err.msg, err.is)

\* The ClientError struct; Err is Nil or an error value.
ClientError(err, retryable, statusCode, url) ==
    [Err |-> err, Message |-> "", Retryable |-> retryable,
     ServerResponse |-> "", StatusCode |-> statusCode, URL |-> url]

DefaultRetryableErrorMessages == << >>

\* A status table without 429.
DefaultRetryableStatusCodes_No429 ==
    << StatusBadGateway, StatusConflict, StatusGatewayTimeout,
       StatusInternalServerError, StatusRequestTimeout,
       StatusServiceUnavailable >>

\* RetryableStatusCodes as declared, client_errors.go:28-36
DefaultRetryableStatusCodes ==
    << StatusBadGateway, StatusConflict, StatusGatewayTimeout,
       StatusInternalServerError, StatusRequestTimeout,
       StatusServiceUnavailable, StatusTooManyRequests >>

-----------------------------------------------------------------------------
(* URLs.  net/url's Parse as SanitizedRawURL and http.NewRequestWithContext *)
(* use it, on URLs without user information, IPv6 literals or ports.        *)

LowerLetters == {"a","b","c","d","e","f","g","h","i","j","k","l","m",
                 "n","o","p","q","r","s","t","u","v","w","x","y","z"}
UpperLetters == {"A","B","C","D","E","F","G","H","I","J","K","L","M",
                 "N","O","P","Q","R","S","T","U","V","W","X","Y","Z"}
Digits == {"0","1","2","3","4","5","6","7","8","9"}

\* Characters the host of a URL may not hold (net/url shouldEscape, encodeHost).
InvalidHostChars == {" ", "|", "^", "{", "}", "/", "?", "#", "@", "%"}

LowerOf(ch) ==
    IF ch \in UpperLetters
    THEN CHOOSE l \in LowerLetters :
            \E i \in 1..26 :
                /\ SubSeq("abcdefghijklmnopqrstuvwxyz", i, i) = l
                /\ SubSeq("ABCDEFGHIJKLMNOPQRSTUVWXYZ", i, i) = ch
    ELSE ch

\* strings.ToLower
RECURSIVE ToLower(_)
ToLower(s) ==
    IF s = "" THEN "" ELSE LowerOf(SubSeq(s, 1, 1)) \o ToLower(After(s, 1))

\* The bytes the percent-escapes of the modelled URLs stand for.
HexPairs == [p \in {"20", "23", "25", "26", "2B", "2F", "3D", "3F", "41"} |->
                CASE p = "20" -> " "
                  [] p = "23" -> "#"
                  [] p = "25" -> "%"
                  [] p = "26" -> "&"
                  [] p = "2B" -> "+"
                  [] p = "2F" -> "/"
                  [] p = "3D" -> "="
                  [] p = "3F" -> "?"
                  [] p = "41" -> "A"]

\* net/url unescape of a path: [ok, s]; a '%' not followed by a known pair of
\* hex digits is an escape error.
RECURSIVE Unescape(_)
Unescape(s) ==
    IF s = ""
    THEN [ok |-> TRUE, s |-> ""]
    ELSE IF SubSeq(s, 1, 1) = "%"
         THEN IF Len(s) >= 3 /\ SubSeq(s, 2, 3) \in DOMAIN HexPairs
              THEN LET r == Unescape(After(s, 3))
                   IN  [ok |-> r.ok, s |-> HexPairs[SubSeq(s, 2, 3)] \o r.s]
              ELSE [ok |-> FALSE, s |-> ""]
         ELSE LET r == Unescape(After(s, 1))
              IN  [ok |-> r.ok, s |-> SubSeq(s, 1, 1) \o r.s]

\* net/url getScheme: [ok, scheme, rest]
getScheme(rawURL) ==
    LET SchemeChar(i) ==
            \/ SubSeq(rawURL, i, i) \in LowerLetters \cup UpperLetters
            \/ i > 1 /\ SubSeq(rawURL, i, i) \in Digits \cup {"+", "-", "."}
        stops == {i \in 1..Len(rawURL) : ~SchemeChar(i)}
    IN  IF stops = {}
        THEN [ok |-> TRUE, scheme |-> "", rest |-> rawURL]
        ELSE LET i == CHOOSE k \in stops : \A j \in stops : k <= j
             IN  IF SubSeq(rawURL, i, i) = ":"
                 THEN IF i = 1
                      THEN [ok |-> FALSE, scheme |-> "", rest |-> ""]
                      ELSE [ok |-> TRUE, scheme |-> Before(rawURL, i),
                            rest |-> After(rawURL, i)]
                 ELSE [ok |-> TRUE, scheme |-> "", rest |-> rawURL]

\* strings.Cut(s, ch) for a one-character ch
Cut(s, ch) ==
    IF Index(s, ch) = 0
    THEN [before |-> s, after |-> "", found |-> FALSE]
    ELSE [before |-> Before(s, Index(s, ch)), after |-> After(s, Index(s, ch)),
          found |-> TRUE]

ParseError(why) == [ok |-> FALSE, why |-> why]

\* The URL struct of a hierarchical URL once path and fragment are unescaped.
ParsedURL(scheme, host, rawPath, path, query, rawFragment, fragment) ==
    IF ~path.ok \/ ~fragment.ok
    THEN ParseError("invalid URL escape")
    ELSE [ok |-> TRUE, Scheme |-> scheme, Opaque |-> "", Host |-> host,
          Path |-> path.s, RawPath |-> rawPath, RawQuery |-> query,
          Fragment |-> fragment.s, RawFragment |-> rawFragment]

\* The authority "//host" of a URL, cut at the first slash after it.
ParseAuthority(scheme, auth, query, frag) ==
    IF \E i \in 1..Len(auth.before) : SubSeq(auth.before, i, i) \in InvalidHostChars
    THEN ParseError("invalid character in host name")
    ELSE ParsedURL(scheme, auth.before,
                   IF auth.found THEN "/" \o auth.after ELSE "",
                   Unescape(IF auth.found THEN "/" \o auth.after ELSE ""),
                   query, frag, Unescape(frag))

\* net/url parse after the scheme and the query are cut off.
ParseHierarchy(scheme, rest, query, frag) ==
    IF ~HasPrefix(rest, "/") /\ scheme # ""
    THEN [ok |-> TRUE, Scheme |-> scheme, Opaque |-> rest, Host |-> "",
          Path |-> "", RawPath |-> "", RawQuery |-> query,
          Fragment |-> Unescape(frag).s, RawFragment |-> frag]
    ELSE IF ~HasPrefix(rest, "/") /\ Contains(Cut(rest, "/").before, ":")
    THEN ParseError("first path segment in URL cannot contain colon")
    ELSE IF HasPrefix(rest, "//") /\ (scheme # "" \/ ~HasPrefix(rest, "///"))
    THEN ParseAuthority(scheme, Cut(After(rest, 2), "/"), query, frag)
    ELSE ParsedURL(scheme, "", rest, Unescape(rest), query, frag, Unescape(frag))

ParseScheme(sch, frag) ==
    IF ~sch.ok
    THEN ParseError("missing protocol scheme")
    ELSE ParseHierarchy(ToLower(sch.scheme), Cut(sch.rest, "?").before,
                        Cut(sch.rest, "?").after, frag)

\* url.Parse(rawURL): [ok |-> FALSE, why] on a parse error, and otherwise the
\* URL struct with ok |-> TRUE.
Parse(rawURL) ==
    ParseScheme(getScheme(Cut(rawURL, "#").before), Cut(rawURL, "#").after)

\* net/url escape(s, encodePath) on the characters of the model
RECURSIVE EscapePath(_)
EscapePath(s) ==
    IF s = "" THEN ""
    ELSE (CASE SubSeq(s, 1, 1) = " " -> "%20"
            [] SubSeq(s, 1, 1) = "#" -> "%23"
            [] SubSeq(s, 1, 1) = "%" -> "%25"
            [] SubSeq(s, 1, 1) = "?" -> "%3F"
            [] OTHER -> SubSeq(s, 1, 1))
         \o EscapePath(After(s, 1))

\* (*url.URL).EscapedPath(): RawPath while it is an encoding of Path, and the
\* default encoding of Path otherwise.
EscapedPath(u) ==
    IF u.RawPath # "" /\ Unescape(u.RawPath).ok /\ Unescape(u.RawPath).s = u.Path
    THEN u.RawPath
    ELSE EscapePath(u.Path)

\* The path as (*url.URL).String() writes it after scheme and host (written).
StringPath(u, written, path) ==
    (IF path # "" /\ ~HasPrefix(path, "/") /\ u.Host # "" THEN "/" ELSE "")
    \o (IF written = "" /\ Contains(Cut(path, "/").before, ":") THEN "./" ELSE "")
    \o path

\* Scheme and host as (*url.URL).String() writes them.
StringAuthority(u) ==
    (IF u.Scheme # "" THEN u.Scheme \o ":" ELSE "")
    \o (IF u.Opaque = "" /\ (u.Scheme # "" \/ u.Host # "")
           /\ (u.Host # "" \/ u.Path # "")
        THEN "//" \o u.Host ELSE "")

\* (*url.URL).String()
URLString(u) ==
    StringAuthority(u)
    \o (IF u.Opaque # ""
        THEN u.Opaque
        ELSE StringPath(u, StringAuthority(u), EscapedPath(u)))
    \o (IF u.RawQuery # "" THEN "?" \o u.RawQuery ELSE "")
    \o (IF u.Fragment # "" THEN "#" \o u.RawFragment ELSE "")

\* A sanitizer that writes the URL out as it stands.
SanitizedURL_Whole(u) == URLString(u)

\* util.SanitizedURL, util/util.go:9-17
SanitizedURL(u) ==
    LET sanitizedURL == u.Scheme \o "://" \o u.Host
    IN  IF u.Path # "" THEN sanitizedURL \o u.Path ELSE sanitizedURL

\* util.SanitizedRawURL, util/util.go:21-30
SanitizedParsed(u, parsedReceivedURL) ==
    IF parsedReceivedURL.ok THEN SanitizedURL(parsedReceivedURL) ELSE u

SanitizedRawURL(u) == SanitizedParsed(u, Parse(u))

\* http.StatusText on the status codes of the model; "" for any other code.
StatusText(code) ==
    CASE code = 200 -> "OK"
      [] code = 204 -> "No Content"
      [] code = 301 -> "Moved Permanently"
      [] code = 403 -> "Forbidden"
      [] code = 404 -> "Not Found"
      [] code = 408 -> "Request Timeout"
      [] code = 409 -> "Conflict"
      [] code = 410 -> "Gone"
      [] code = 418 -> "I'm a teapot"
      [] code = 429 -> "Too Many Requests"
      [] code = 500 -> "Internal Server Error"
      [] code = 501 -> "Not Implemented"
      [] code = 502 -> "Bad Gateway"
      [] code = 503 -> "Service Unavailable"
      [] code = 504 -> "Gateway Timeout"
      [] code = 508 -> "Loop Detected"
      [] OTHER -> ""

\* fmt.Sprintf("%d (%s)", cE.StatusCode, http.StatusText(cE.StatusCode))
StatusLine(code) == ToString(code) \o " (" \o StatusText(code) \o ")"

\* (*ClientError).Error(), client_errors.go:50-71, below the Message check
ErrorText(cE, url) ==
    "URL " \o url
    \o (IF cE.StatusCode # 0 THEN " - " \o StatusLine(cE.StatusCode) ELSE "")
    \o (IF cE.Err # Nil THEN " Error: " \o cE.Err.msg ELSE "")
    \o (IF cE.ServerResponse # ""
        THEN ". Server response: " \o cE.ServerResponse ELSE "")

\* An Error() that never looks at Message.
Error_IgnoringMessage(cE) == ErrorText(cE, SanitizedRawURL(cE.URL))

\* (*ClientError).Error(), client_errors.go:50-71
Error(cE) ==
    IF cE.Message # "" THEN cE.Message ELSE ErrorText(cE, SanitizedRawURL(cE.URL))

\* (*ClientError).Short(), client_errors.go:77-83
Short(cE) ==
    IF cE.StatusCode # 0
    THEN StatusLine(cE.StatusCode)
    ELSE "Failed to reach " \o SanitizedRawURL(cE.URL)

NoText == [pc |-> "idle", cE |-> Nil, Error |-> "", Short |-> ""]

\* MissingRegionsInformation(url), client_errors.go:87-94
MissingRegionsInformation(url) ==
    ClientError(ErrMissingRegions, FALSE, StatusInternalServerError,
                SanitizedRawURL(url))

-----------------------------------------------------------------------------
(* generateURL, client_utils.go:34-59, with path.Join and url.Values as it  *)
(* uses them.  A url.Values is a function from its keys to lists of values. *)
(* In the queryParams a caller passes, a list may be nil: each list there   *)
(* is a record of whether it is nil and of its values.                      *)

\* strings.Split(s, ch) for a one-character ch
RECURSIVE Split(_, _)
Split(s, ch) ==
    IF Index(s, ch) = 0
    THEN << s >>
    ELSE << Before(s, Index(s, ch)) >> \o Split(After(s, Index(s, ch)), ch)

\* strings.Join(elems, sep)
RECURSIVE JoinStrings(_, _)
JoinStrings(elems, sep) ==
    IF elems = << >> THEN ""
    ELSE IF Len(elems) = 1 THEN elems[1]
    ELSE elems[1] \o sep \o JoinStrings(Tail(elems), sep)

\* path.Clean on the elements of a path: empty elements and "." dropped, ".."
\* takes the element before it away and is dropped at the root.
RECURSIVE CleanElements(_, _, _)
CleanElements(elems, rooted, out) ==
    IF elems = << >> THEN out
    ELSE CleanElements(Tail(elems), rooted,
            IF Head(elems) \in {"", "."} THEN out
            ELSE IF Head(elems) # ".." THEN Append(out, Head(elems))
            ELSE IF out # << >> /\ out[Len(out)] # ".."
                 THEN SubSeq(out, 1, Len(out) - 1)
            ELSE IF rooted THEN out
            ELSE Append(out, ".."))

CleanBody(p) == JoinStrings(CleanElements(Split(p, "/"), HasPrefix(p, "/"), << >>), "/")

\* path.Clean(p)
Clean(p) ==
    IF p = "" THEN "."
    ELSE IF HasPrefix(p, "/") THEN "/" \o CleanBody(p)
    ELSE IF CleanBody(p) = "" THEN "."
    ELSE CleanBody(p)

\* A join that writes one path after the other.
Join_Concat(a, b) == a \o b

\* path.Join(a, b)
Join(a, b) ==
    IF a = "" /\ b = "" THEN ""
    ELSE IF a = "" THEN Clean(b)
    ELSE IF b = "" THEN Clean(a)
    ELSE Clean(a \o "/" \o b)

\* for _, p := range paths { base.Path = path.Join(base.Path, p) }
RECURSIVE JoinAll(_, _)
JoinAll(basePath, paths) ==
    IF paths = << >> THEN basePath
    ELSE JoinAll(Join(basePath, Head(paths)), Tail(paths))

\* The bytes of the model in their order.
ByteOrder == " #%&+-./0123456789:;=?ABCDEFGHIJKLMNOPQRSTUVWXYZ_abcdefghijklmnopqrstuvwxyz|~"

\* a < b for strings, byte by byte
RECURSIVE StringLess(_, _)
StringLess(a, b) ==
    IF b = "" THEN FALSE
    ELSE IF a = "" THEN TRUE
    ELSE IF SubSeq(a, 1, 1) = SubSeq(b, 1, 1) THEN StringLess(After(a, 1), After(b, 1))
    ELSE Index(ByteOrder, SubSeq(a, 1, 1)) < Index(ByteOrder, SubSeq(b, 1, 1))

\* The keys of a url.Values in sorted order
RECURSIVE SortedKeys(_)
SortedKeys(keys) ==
    IF keys = {} THEN << >>
    ELSE LET first == CHOOSE k \in keys : \A j \in keys \ {k} : StringLess(k, j)
         IN  << first >> \o SortedKeys(keys \ {first})

\* url.QueryEscape on the characters of the model
RECURSIVE QueryEscape(_)
QueryEscape(s) ==
    IF s = "" THEN ""
    ELSE (CASE SubSeq(s, 1, 1) = " " -> "+"
            [] SubSeq(s, 1, 1) = "#" -> "%23"
            [] SubSeq(s, 1, 1) = "%" -> "%25"
            [] SubSeq(s, 1, 1) = "&" -> "%26"
            [] SubSeq(s, 1, 1) = "+" -> "%2B"
            [] SubSeq(s, 1, 1) = "/" -> "%2F"
            [] SubSeq(s, 1, 1) = "=" -> "%3D"
            [] SubSeq(s, 1, 1) = "?" -> "%3F"
            [] OTHER -> SubSeq(s, 1, 1))
         \o QueryEscape(After(s, 1))

\* '+' read as a space
RECURSIVE PlusToSpace(_)
PlusToSpace(s) ==
    IF s = "" THEN ""
    ELSE (IF SubSeq(s, 1, 1) = "+" THEN "%20" ELSE SubSeq(s, 1, 1))
         \o PlusToSpace(After(s, 1))

\* url.QueryUnescape: [ok, s]
QueryUnescape(s) == Unescape(PlusToSpace(s))

\* One "key=value" of a query string (without semicolons) added to the values
\* m, as url.ParseQuery does it: an empty pair and a pair with a bad escape
\* add nothing.
AddPair(m, pair, key, value) ==
    IF pair = "" \/ ~key.ok \/ ~value.ok
    THEN m
    ELSE IF key.s \in DOMAIN m
    THEN [m EXCEPT ![key.s] = Append(@, value.s)]
    ELSE m @@ (key.s :> << value.s >>)

RECURSIVE AddPairs(_, _)
AddPairs(m, pairs) ==
    IF pairs = << >> THEN m
    ELSE AddPairs(AddPair(m, Head(pairs),
                          QueryUnescape(Cut(Head(pairs), "=").before),
                          QueryUnescape(Cut(Head(pairs), "=").after)),
                  Tail(pairs))

\* The url.Values with no key
NoValues == [k \in {} |-> << >>]

\* A nil []string and a []string that is not nil, as a caller passes them
NilList == [nil |-> TRUE, vs |-> << >>]
List(vs) == [nil |-> FALSE, vs |-> vs]

\* (*url.URL).Query(): url.ParseQuery(u.RawQuery), its error dropped
Query(u) == AddPairs(NoValues, Split(u.RawQuery, "&"))

\* An encoding that writes the first value of a key only.
EncodeKey_FirstOnly(keyEscaped, vs) ==
    IF vs = << >> THEN << >>
    ELSE << keyEscaped \o "=" \o QueryEscape(Head(vs)) >>

\* "key=value" for each value of one key, joined by "&"
RECURSIVE EncodeKey(_, _)
EncodeKey(keyEscaped, vs) ==
    IF vs = << >> THEN << >>
    ELSE << keyEscaped \o "=" \o QueryEscape(Head(vs)) >> \o EncodeKey(keyEscaped, Tail(vs))

RECURSIVE EncodeKeys(_, _)
EncodeKeys(v, keys) ==
    IF keys = << >> THEN << >>
    ELSE EncodeKey(QueryEscape(Head(keys)), v[Head(keys)]) \o EncodeKeys(v, Tail(keys))

\* url.Values.Encode(): sorted by key
Encode(v) == JoinStrings(EncodeKeys(v, SortedKeys(DOMAIN v)), "&")

\* The entry k of queryParams passes `k != "" && (v != nil && v[0] != "")`.
\* The test indexes a list that is not nil without looking at its length.
Panics(queryParams) ==
    \E k \in DOMAIN queryParams :
        k # "" /\ ~queryParams[k].nil /\ queryParams[k].vs = << >>

Taken(queryParams) ==
    {k \in DOMAIN queryParams :
        k # "" /\ ~queryParams[k].nil /\ queryParams[k].vs # << >>
               /\ queryParams[k].vs[1] # ""}

\* A merge that adds the values passed to the ones the base has.
Merge_Appending(finalQueryParams, queryParams) ==
    [k \in DOMAIN finalQueryParams \cup Taken(queryParams) |->
        IF k \notin Taken(queryParams) THEN finalQueryParams[k]
        ELSE IF k \in DOMAIN finalQueryParams
        THEN finalQueryParams[k] \o queryParams[k].vs
        ELSE queryParams[k].vs]

\* for k, v := range queryParams { ... finalQueryParams[k] = v }
Merge(finalQueryParams, queryParams) ==
    [k \in DOMAIN finalQueryParams \cup Taken(queryParams) |->
        IF k \in Taken(queryParams) THEN queryParams[k].vs ELSE finalQueryParams[k]]

\* generateURL from the parsed base on, client_utils.go:44-58
generateParsed(baseURL, base, paths, queryParams) ==
    IF ~base.ok
    THEN [url |-> "",
          err |-> NewError("parse \"" \o baseURL \o "\": " \o base.why, {}),
          panic |-> FALSE]
    ELSE IF Panics(queryParams)
    THEN [url |-> "", err |-> Nil, panic |-> TRUE]
    ELSE [url |-> URLString([base EXCEPT
                    !.Path = JoinAll(base.Path, paths),
                    !.RawQuery = Encode(Merge(Query(base), queryParams))]),
          err |-> Nil, panic |-> FALSE]

\* generateURL(baseURL, paths, queryParams): (url, err), or a runtime panic
generateURL(baseURL, paths, queryParams) ==
    generateParsed(baseURL, Parse(baseURL), paths, queryParams)

-----------------------------------------------------------------------------
(* The retry classifier, client_errors.go:96-130.                           *)

\* The loop over RetryableErrorMessages from entry i on (lines 108-114): the
\* first entry the message contains sets Retryable and returns from the
\* function.
RECURSIVE MessageLoop(_, _)
MessageLoop(cE, i) ==
    IF i > Len(RetryableErrorMessages)
    THEN [cE |-> cE, returned |-> FALSE]
    ELSE IF Contains(cE.Err.msg, RetryableErrorMessages[i])
         THEN [cE |-> [cE EXCEPT !.Retryable = TRUE], returned |-> TRUE]
         ELSE MessageLoop(cE, i + 1)

\* The loop over RetryableStatusCodes from entry i on (lines 124-128): every
\* entry is compared, a match sets Retryable and the scan goes on.
RECURSIVE StatusLoop(_, _)
StatusLoop(cE, i) ==
    IF i > Len(RetryableStatusCodes)
    THEN cE
    ELSE StatusLoop(IF cE.StatusCode = RetryableStatusCodes[i]
                    THEN [cE EXCEPT !.Retryable = TRUE]
                    ELSE cE,
                    i + 1)

\* isErrorRetryable without its status-code check.
isErrorRetryable_MessageOnly(cE) ==
    IF cE = Nil
    THEN Nil
    ELSE IF cE.Err # Nil THEN MessageLoop(cE, 1).cE ELSE cE

\* isErrorRetryable computing the flag afresh: no match clears it.
isErrorRetryable_Assigning(cE) ==
    IF cE = Nil
    THEN Nil
    ELSE [cE EXCEPT !.Retryable =
            \/ cE.Err # Nil /\ MessageLoop(cE, 1).returned
            \/ cE.StatusCode # 0 /\ StatusLoop([cE EXCEPT !.Retryable = FALSE], 1).Retryable]

\* isErrorRetryable dropping the server's response from the error it marks.
isErrorRetryable_DroppingResponse(cE) ==
    IF cE = Nil
    THEN Nil
    ELSE LET m == IF cE.Err # Nil
                  THEN MessageLoop(cE, 1)
                  ELSE [cE |-> cE, returned |-> FALSE]
             r == IF m.returned
                  THEN m.cE
                  ELSE IF m.cE.StatusCode # 0
                       THEN StatusLoop(m.cE, 1)
                       ELSE m.cE
         IN  IF r.Retryable THEN [r EXCEPT !.ServerResponse = ""] ELSE r

\* isErrorRetryable(cE): the error as the call leaves it (Nil for a nil cE).
isErrorRetryable(cE) ==
    IF cE = Nil
    THEN Nil
    ELSE LET m == IF cE.Err # Nil
                  THEN MessageLoop(cE, 1)
                  ELSE [cE |-> cE, returned |-> FALSE]
         IN  IF m.returned
             THEN m.cE
             ELSE IF m.cE.StatusCode # 0
                  THEN StatusLoop(m.cE, 1)
                  ELSE m.cE

\* isErrorRetryable statement by statement: pc is the statement to run
\* next, i the index of the table entry a loop is at, cE the error as it
\* stands; matched records that the message loop found an entry,
\* statusChecked that the test of line 122 ran, compared how many status
\* codes were compared.
NoScan ==
    [pc |-> "idle", in |-> Nil, cE |-> Nil, i |-> 0, matched |-> FALSE,
     statusChecked |-> FALSE, compared |-> 0]

\* A message match that goes on to the status-code check.
MessageMatched_FallThrough(s) ==
    [s EXCEPT !.cE.Retryable = TRUE, !.matched = TRUE, !.pc = "status"]

\* cE.Retryable = true; return, client_errors.go:110-112
MessageMatched(s) ==
    [s EXCEPT !.cE.Retryable = TRUE, !.matched = TRUE, !.pc = "returned"]

-----------------------------------------------------------------------------
(* JSON payloads and bodies.                                                *)

\* The zero value of a response target, as the caller passes it in.
ZeroValue == [zero |-> TRUE]

\* encoding/json on the documents of the model: the text of each value the
\* model encodes or decodes.
JSONDocs ==
    [t \in {"{\"jobs_running\":2}", "{\"error\":\"not found\"}",
            "{\"configuration\":{\"regions\":[]}}",
            "{\"configuration\":{\"regions\":[{\"name\":\"us-west\"}]}}",
            "{\"tunnel_identifier\":\"t1\"}"} |->
        CASE t = "{\"jobs_running\":2}" -> [jobs_running |-> 2]
          [] t = "{\"error\":\"not found\"}" -> [error |-> "not found"]
          [] t = "{\"configuration\":{\"regions\":[]}}" ->
                [configuration |-> [regions |-> << >>]]
          [] t = "{\"configuration\":{\"regions\":[{\"name\":\"us-west\"}]}}" ->
                [configuration |-> [regions |-> << [name |-> "us-west"] >>]]
          [] t = "{\"tunnel_identifier\":\"t1\"}" -> [tunnel_identifier |-> "t1"]]

\* A request payload: Nil, a document, or a value json cannot encode.
Unencodable == [unsupported |-> "chan int"]
Requests == {Nil, [jobs_running |-> 2], Unencodable}

\* A response body: the text the server sent, whether reading it fails
\* after that text, and whether it is closed when the transport hands it over.
Body(text, readErr) == [text |-> text, readErr |-> readErr, closed |-> FALSE]

\* The body of a response http.Client.Do returns with an error: closed already
ClosedBody == [Body("", FALSE) EXCEPT !.closed = TRUE]
ErrUnexpectedEOF == NewError("unexpected EOF", {"ErrUnexpectedEOF"})

\* encodeJSON(w, v), client_utils.go:24-30: [err, buf]
encodeJSON(v) ==
    IF \E t \in DOMAIN JSONDocs : JSONDocs[t] = v
    THEN [err |-> Nil, buf |-> CHOOSE t \in DOMAIN JSONDocs : JSONDocs[t] = v]
    ELSE [err |-> Wrap("couldn't encode JSON document",
                       NewError("json: unsupported type: chan int", {})),
          buf |-> ""]

\* (*Client).encode with a non-nil writer, client.go:101-111
encode(v) == encodeJSON(v)

\* A decoder that reads the document and leaves the target alone.
decodeJSON_Discard(reader, v) == [err |-> Nil, v |-> v]

\* decodeJSON(reader, v), client_utils.go:14-22: [err, v]; the target keeps
\* its value when the document cannot be read or parsed.
decodeJSON(reader, v) ==
    IF reader.readErr
    THEN [err |-> Wrap("couldn't decode JSON document", ErrUnexpectedEOF), v |-> v]
    ELSE IF reader.text \in DOMAIN JSONDocs
    THEN [err |-> Nil, v |-> JSONDocs[reader.text]]
    ELSE IF reader.text = ""
    THEN [err |-> Wrap("couldn't decode JSON document", NewError("EOF", {"EOF"})),
          v |-> v]
    ELSE [err |-> Wrap("couldn't decode JSON document",
                       NewError("invalid character looking for beginning of value", {})),
          v |-> v]

\* (*Client).decode, client.go:89-99
decode(reader, v) ==
    IF reader = Nil THEN [err |-> ErrNullReader, v |-> v] ELSE decodeJSON(reader, v)

\* (*bytes.Buffer).ReadFrom(resp.Body): [err, s]
ReadFrom(reader) ==
    [err |-> IF reader.readErr THEN ErrUnexpectedEOF ELSE Nil, s |-> reader.text]

-----------------------------------------------------------------------------
(* executeRequest, client.go:115-255 (region/region_error.go:109-251).      *)

\* Bytes an HTTP method may not hold (net/http validMethod).
NonTokenChars == {" ", "(", ")", ",", "/", ":", ";", "<", "=", ">", "?", "@",
                  "[", "]", "{", "}"}

\* http.NewRequestWithContext(ctx, method, url, reader): [err, req]
NewRequest(method, url, u, reader) ==
    IF \E i \in 1..Len(method) : SubSeq(method, i, i) \in NonTokenChars
    THEN [err |-> NewError("net/http: invalid method \"" \o method \o "\"", {}),
          req |-> Nil]
    ELSE IF ~u.ok
    THEN [err |-> NewError("parse \"" \o url \o "\": " \o u.why, {}), req |-> Nil]
    ELSE [err |-> Nil,
          req |-> [Method |-> IF method = "" THEN "GET" ELSE method,
                   URL |-> u, Body |-> reader]]

NewRequestWithContext(method, url, reader) ==
    NewRequest(method, url, Parse(url), reader)

\* The headers of a request, client.go:156-163 and, with the User-Agent,
\* region/region_error.go:150-163.  A header is a function from canonical
\* keys to values.

UpperOf(ch) ==
    IF ch \in LowerLetters
    THEN CHOOSE u \in UpperLetters : LowerOf(u) = ch
    ELSE ch

\* textproto.CanonicalMIMEHeaderKey: a capital at the start and after each
\* '-', small letters elsewhere.
RECURSIVE CanonicalFrom(_, _)
CanonicalFrom(s, upper) ==
    IF s = "" THEN ""
    ELSE (IF upper THEN UpperOf(SubSeq(s, 1, 1)) ELSE LowerOf(SubSeq(s, 1, 1)))
         \o CanonicalFrom(After(s, 1), SubSeq(s, 1, 1) = "-")

CanonicalHeaderKey(s) == CanonicalFrom(s, TRUE)

\* A header with no key, a new request's
NoHeader == [k \in {} |-> ""]

\* req.Header.Set(key, value)
Set(header, key, value) ==
    [k \in DOMAIN header \cup {CanonicalHeaderKey(key)} |->
        IF k = CanonicalHeaderKey(key) THEN value ELSE header[k]]

\* for header, val := range c.Headers { req.Header.Set(header, val) }, on
\* static headers whose canonical keys differ
SetAll(header, Headers) ==
    [k \in DOMAIN header \cup {CanonicalHeaderKey(h) : h \in DOMAIN Headers} |->
        IF \E h \in DOMAIN Headers : CanonicalHeaderKey(h) = k
        THEN Headers[CHOOSE h \in DOMAIN Headers : CanonicalHeaderKey(h) = k]
        ELSE header[k]]

\* base64.StdEncoding of "user:key" for the credentials of the model
Base64 ==
    [a \in {"sah:password", ":"} |->
        IF a = "sah:password" THEN "c2FoOnBhc3N3b3Jk" ELSE "Og=="]

\* req.SetBasicAuth(username, password)
SetBasicAuth(header, username, password) ==
    Set(header, "Authorization", "Basic " \o Base64[username \o ":" \o password])

\* The revisions of executeRequest in the tree: region/region_error.go sets
\* a User-Agent, client.go has no UserAgent field and sets none.
Revisions == {"client.go", "region/region_error.go"}

\* region/region_error.go:154-158
SetUserAgent(header, c) ==
    IF c.revision = "client.go" THEN header
    ELSE IF c.UserAgent = "" THEN Set(header, "User-Agent", "SauceLabs/tunnelrest-go")
    ELSE Set(header, "User-Agent", c.UserAgent)

\* client.go:156-163, region/region_error.go:150-163
Decorate(header, c) ==
    SetBasicAuth(
        Set(Set(SetUserAgent(SetAll(header, c.Headers), c),
                "Accept", "application/json"),
            "Content-Type", "application/json"),
        c.User, c.APIKey)

NoDecoration == [pc |-> "idle", c |-> Nil, Header |-> NoHeader]

\* The error of a failed encode, client.go:129-134
EncodeFailure(err, url) ==
    ClientError(err, FALSE, StatusInternalServerError, SanitizedRawURL(url))

\* The error of a failed request construction, client.go:148-153
BuildFailure(err, url) ==
    ClientError(err, FALSE, StatusInternalServerError, SanitizedRawURL(url))

\* A transport failure returned as the constructor built it.
TransportFailure_Unclassified(err, resp, req) ==
    LET cE  == ClientError(err, FALSE, 0, SanitizedURL(req.URL))
        cE1 == IF resp # Nil /\ resp.StatusCode # 0
               THEN [cE EXCEPT !.StatusCode = resp.StatusCode]
               ELSE cE
    IN  IF IsDeadlineExceeded(err)
        THEN [cE1 EXCEPT !.StatusCode = StatusRequestTimeout]
        ELSE cE1

\* A transport failure whose partial status wins over the forced 408.
TransportFailure_PartialLast(err, resp, req) ==
    LET cE  == ClientError(err, FALSE, 0, SanitizedURL(req.URL))
        cE1 == IF IsDeadlineExceeded(err)
               THEN [cE EXCEPT !.StatusCode = StatusRequestTimeout]
               ELSE cE
        cE2 == IF resp # Nil /\ resp.StatusCode # 0
               THEN [cE1 EXCEPT !.StatusCode = resp.StatusCode]
               ELSE cE1
    IN  isErrorRetryable(cE2)

\* A transport failure that leaves the status of a partial response out.
TransportFailure_NoPartial(err, resp, req) ==
    LET cE  == ClientError(err, FALSE, 0, SanitizedURL(req.URL))
        cE2 == IF IsDeadlineExceeded(err)
               THEN [cE EXCEPT !.StatusCode = StatusRequestTimeout]
               ELSE cE
    IN  isErrorRetryable(cE2)

\* The error of a failed transport call, client.go:176-196
TransportFailure(err, resp, req) ==
    LET cE  == ClientError(err, FALSE, 0, SanitizedURL(req.URL))
        cE1 == IF resp # Nil /\ resp.StatusCode # 0
               THEN [cE EXCEPT !.StatusCode = resp.StatusCode]
               ELSE cE
        cE2 == IF IsDeadlineExceeded(err)
               THEN [cE1 EXCEPT !.StatusCode = StatusRequestTimeout]
               ELSE cE1
    IN  isErrorRetryable(cE2)

\* An unreadable body that is swallowed.
ReadFailure_Swallowed(err, req) == Nil

\* The error of a response body that cannot be read, client.go:213-218
ReadFailure(err, req) ==
    ClientError(err, FALSE, StatusInternalServerError, SanitizedURL(req.URL))

\* A failed request that drops the body the server sent.
RequestFailed_NoBody(resp, buf, req) ==
    isErrorRetryable(ClientError(ErrRequestFailed, FALSE, resp.StatusCode,
                                 SanitizedURL(req.URL)))

\* The error of a response outside 2xx whose body was read, client.go:223-237
RequestFailed(resp, buf, req) ==
    LET cE  == ClientError(ErrRequestFailed, FALSE, resp.StatusCode,
                           SanitizedURL(req.URL))
        cE1 == IF buf # "" THEN [cE EXCEPT !.ServerResponse = buf] ELSE cE
    IN  isErrorRetryable(cE1)

\* A decode failure handed to the classifier.
DecodeFailure_Classified(err, req) ==
    isErrorRetryable(ClientError(err, FALSE, StatusInternalServerError,
                                 SanitizedURL(req.URL)))

\* The error of a 2xx body that cannot be decoded, client.go:245-250
DecodeFailure(err, req) ==
    ClientError(err, FALSE, StatusInternalServerError, SanitizedURL(req.URL))

\* Only 2xx is considered valid, client.go:201-202
Is2xx(statusCode) == ~(statusCode < StatusOK \/ statusCode >= StatusMultipleChoices)

\* executeRequest from the built request on, client.go:145-163
executeRequestBuild(url, new) ==
    IF new.err # Nil
    THEN [err |-> BuildFailure(new.err, url), req |-> Nil]
    ELSE [err |-> Nil, req |-> new.req]

\* executeRequest from the encoded payload on, client.go:126-145
executeRequestEncoded(method, url, enc) ==
    IF enc.err # Nil
    THEN [err |-> EncodeFailure(enc.err, url), req |-> Nil]
    ELSE executeRequestBuild(url, NewRequestWithContext(method, url, enc.buf))

\* executeRequest up to the transport call, client.go:120-163:
\* [err, req], err the ClientError returned before anything is sent.
executeRequestSend(method, url, request) ==
    executeRequestEncoded(method, url,
        IF request # Nil THEN encode(request) ELSE [err |-> Nil, buf |-> Nil])

\* An executeRequest that decodes the body of a response outside 2xx into the
\* target before it reports the failure.
executeRequestReceive_DecodeAnyway(out, req, response) ==
    IF out.err # Nil
    THEN [err |-> TransportFailure(out.err, out.resp, req),
          response |-> response, decodeCalls |-> 0]
    ELSE IF ~Is2xx(out.resp.StatusCode)
    THEN LET rd == ReadFrom(out.resp.Body)
         IN  [err |-> IF rd.err # Nil
                      THEN ReadFailure(rd.err, req)
                      ELSE RequestFailed(out.resp, rd.s, req),
              response |-> IF response # Nil
                           THEN decode(out.resp.Body, response).v ELSE response,
              decodeCalls |-> IF response # Nil THEN 1 ELSE 0]
    ELSE IF response # Nil
    THEN LET dec == decode(out.resp.Body, response)
         IN  [err |-> IF dec.err # Nil THEN DecodeFailure(dec.err, req) ELSE Nil,
              response |-> dec.v, decodeCalls |-> 1]
    ELSE [err |-> Nil, response |-> response, decodeCalls |-> 0]

\* executeRequest from the return of the transport call on, client.go:176-254:
\* [err, response, decodeCalls], err the value returned, response the target
\* as the call leaves it, decodeCalls how often c.decode ran.
executeRequestReceive(out, req, response) ==
    IF out.err # Nil
    THEN [err |-> TransportFailure(out.err, out.resp, req),
          response |-> response, decodeCalls |-> 0]
    ELSE IF ~Is2xx(out.resp.StatusCode)
    THEN LET rd == ReadFrom(out.resp.Body)
         IN  [err |-> IF rd.err # Nil
                      THEN ReadFailure(rd.err, req)
                      ELSE RequestFailed(out.resp, rd.s, req),
              response |-> response, decodeCalls |-> 0]
    ELSE IF response # Nil
    THEN LET dec == decode(out.resp.Body, response)
         IN  [err |-> IF dec.err # Nil THEN DecodeFailure(dec.err, req) ELSE Nil,
              response |-> dec.v, decodeCalls |-> 1]
    ELSE [err |-> Nil, response |-> response, decodeCalls |-> 0]

\* How often executeRequest closes resp.Body from the return of the transport
\* call on: not on the transport failure path, which returns above the
\* deferred Close of client.go:198; once by that Close on every other path,
\* and once more by the deferred Close of decodeJSON (client_utils.go:15)
\* when the response is decoded.
BodyCloses(out, response) ==
    IF out.err # Nil THEN 0
    ELSE IF ~Is2xx(out.resp.StatusCode) THEN 1
    ELSE IF response # Nil THEN 2
    ELSE 1

-----------------------------------------------------------------------------
(* The public operations, region/region_error.go:253-503, and where they    *)
(* differ those of client.go:257-499.  A client c is a record of its        *)
(* revision, BaseURL, User, APIKey and TunnelOwner (Username, Password and  *)
(* TunnelOwnerUsername in client.go); an invocation o names the operation   *)
(* and holds its arguments.                                                 *)

\* A selection that always takes the user.
getTunnelOwnerUsername_User(c) == c.User

\* (*Client).getTunnelOwnerUsername, region/region_error.go:254-260
getTunnelOwnerUsername(c) ==
    IF Len(c.TunnelOwner) > 0 THEN c.TunnelOwner ELSE c.User

\* pathByProto(protocol), client_utils.go:180-188
pathByProto(protocol) == IF protocol = "ipsec" THEN "vpns" ELSE "tunnels"

\* The protocol part of a list query: region/region_error.go:266-269 and
\* 281-284, client.go:269 and 280
protocolQuery(c, protocols) ==
    IF c.revision = "client.go"
    THEN "&backend=" \o protocols[1]
    ELSE IF Len(protocols) > 0
         THEN "&protocol=" \o JoinStrings(protocols, ",")
         ELSE ""

\* A shutdown that leaves the wait parameter out.
shutdownURL_NoWait(c, o) ==
    generateURL(c.BaseURL \o "/" \o getTunnelOwnerUsername(c) \o "/tunnels/" \o o.id,
                << >>, ("reason" :> List(<< o.reason >>)))

\* The URL shutdown composes, region/region_error.go:307-329 and
\* client.go:304-325: what generateURL returns.
shutdownURL(c, o) ==
    LET target ==
            IF c.revision = "client.go"
            THEN c.BaseURL \o "/"
                    \o Clean(JoinStrings(SelectSeq(
                            << getTunnelOwnerUsername(c), pathByProto(o.protocols[1]), o.id >>,
                            LAMBDA e : e # ""), "/"))
            ELSE c.BaseURL \o "/" \o getTunnelOwnerUsername(c) \o "/tunnels/" \o o.id
        u == generateURL(target, << >>, ("reason" :> List(<< o.reason >>)))
    IN  IF u.err # Nil \/ u.panic
        THEN u
        ELSE generateURL(u.url, << >>,
                         ("wait" :> List(<< IF o.wait THEN "1" ELSE "0" >>)))

\* The URL GetSCUpdates composes, region/region_error.go:393-409
updatesURL(c, o) ==
    generateURL(c.BaseURL,
                << getTunnelOwnerUsername(c), "tunnels/info", "updates" >>,
                ("client_host" :> List(<< o.platform >>))
                @@ ("client_version" :> List(<< o.version >>))
                @@ ("configuration" :> List(<< "" >>))
                @@ ("region" :> List(<< o.region >>))
                @@ ("tunnel_name" :> List(<< "" >>))
                @@ ("tunnel_pool" :> List(<< "true" >>)))

\* An URL written with fmt.Sprintf
Written(url) == [url |-> url, err |-> Nil, panic |-> FALSE]

\* The URL an operation composes: [url, err, panic]
OperationURL(c, o) ==
    CASE o.name = "listSharedTunnels" ->
            Written(c.BaseURL \o "/" \o getTunnelOwnerUsername(c)
                    \o "/tunnels?full=1&all=1" \o protocolQuery(c, o.protocols))
      [] o.name = "listTunnels" ->
            Written(c.BaseURL \o "/" \o getTunnelOwnerUsername(c)
                    \o "/tunnels?full=1" \o protocolQuery(c, o.protocols))
      [] o.name = "listAllTunnels" ->
            Written(c.BaseURL \o "/" \o getTunnelOwnerUsername(c) \o "/all_tunnels"
                    \o (IF o.limit > 0 THEN "?limit=" \o ToString(o.limit) ELSE ""))
      [] o.name = "shutdown" -> shutdownURL(c, o)
      [] o.name = "create" ->
            Written(c.BaseURL \o "/" \o getTunnelOwnerUsername(c) \o "/"
                    \o (IF c.revision = "client.go"
                        THEN pathByProto(o.protocols[1]) ELSE "tunnels"))
      [] o.name = "GetSCUpdates" -> updatesURL(c, o)
      [] o.name = "UpdateClientStatus" ->
            Written(c.BaseURL \o "/" \o c.User \o "/tunnels/" \o o.id \o "/connected")
      [] o.name = "ReportCrash" ->
            Written(c.BaseURL \o "/" \o c.User \o "/errors")
      [] o.name = "TunnelState" ->
            Written(c.BaseURL \o "/" \o getTunnelOwnerUsername(c) \o "/tunnels/" \o o.id)

\* The method, the payload and the response target an operation hands to
\* executeRequest.
OperationMethod(o) ==
    CASE o.name \in {"create", "UpdateClientStatus", "ReportCrash"} -> "POST"
      [] o.name = "shutdown" -> "DELETE"
      [] OTHER -> "GET"

OperationRequest(o) ==
    IF o.name \in {"create", "UpdateClientStatus", "ReportCrash"}
    THEN [tunnel_identifier |-> "t1"]
    ELSE Nil

OperationTarget(o) == IF o.name = "ReportCrash" THEN Nil ELSE ZeroValue

\* response.JobsRunning and resp.Configuration.Regions of a target as the
\* decoder left it: the zero value where the document has no such field.
JobsRunning(response) ==
    IF "jobs_running" \in DOMAIN response THEN response.jobs_running ELSE 0

Regions(resp) ==
    IF "configuration" \in DOMAIN resp /\ "regions" \in DOMAIN resp.configuration
    THEN resp.configuration.regions
    ELSE << >>

\* What an operation returns when the URL cannot be composed: [value, err]
Uncomposed(o, u) ==
    IF o.name = "shutdown"
    THEN [value |-> -1, err |-> u.err]
    ELSE [value |-> ZeroValue, err |-> u.err]

\* A GetSCUpdates that takes any decoded response.
Finished_NoRegionsCheck(o, url, r) ==
    CASE o.name = "shutdown" ->
            IF r.err # Nil
            THEN [value |-> 0, err |-> r.err]
            ELSE [value |-> JobsRunning(r.response), err |-> Nil]
      [] OTHER -> [value |-> r.response, err |-> r.err]

\* What an operation returns once executeRequest has returned r, url being
\* the URL it was called with: [value, err]
Finished(o, url, r) ==
    CASE o.name = "shutdown" ->
            IF r.err # Nil
            THEN [value |-> 0, err |-> r.err]
            ELSE [value |-> JobsRunning(r.response), err |-> Nil]
      [] o.name = "GetSCUpdates" ->
            IF r.err # Nil
            THEN [value |-> r.response, err |-> r.err]
            ELSE IF Len(Regions(r.response)) < 1
            THEN [value |-> r.response, err |-> MissingRegionsInformation(url)]
            ELSE [value |-> r.response, err |-> Nil]
      [] OTHER -> [value |-> r.response, err |-> r.err]

NoOperation ==
    [pc |-> "idle", c |-> Nil, o |-> Nil, url |-> "", req |-> Nil,
     Header |-> NoHeader, sent |-> 0, out |-> Nil, value |-> Nil, err |-> Nil]

-----------------------------------------------------------------------------
(* The environment of a call: the caller's context and the transport        *)
(* (c.ExecuteRequest / c.RoundTrip, or the default http.Client).            *)

MaxMessages == 1
MaxExtraCodes == 1
MaxClassifications == 2
MaxTableLen == 2

Calls == {"c1"}

Methods == {"POST", "bad method"}
URLs == {"https://h/u/tunnels", "https://h/u/tunnels?full=1&key=s3#top", "https://h|x/u?key=s3"}
Targets == {Nil, ZeroValue}
ContextKinds == {"Background", "WithTimeout"}

Statuses == {200, 204, 301, 403, 404, 408, 409, 410, 418, 429,
             500, 501, 502, 503, 504, 508}
Bodies == {Body("", FALSE), Body("{\"error\":\"not found\"}", FALSE),
           Body("{\"jobs_running\":2}", FALSE), Body("<html>", FALSE),
           Body("{\"jobs", TRUE)}
Responses == {[StatusCode |-> s, Body |-> b] : s \in Statuses, b \in Bodies}

\* What a failing transport call hands back besides its error: no response, or
\* a response with no status or with one.
PartialResponses == {Nil, [StatusCode |-> 0, Body |-> Body("", FALSE)],
                     [StatusCode |-> 503, Body |-> Body("", FALSE)],
                     [StatusCode |-> 503, Body |-> ClosedBody]}

\* Entries the embedding application adds to the two tables.
MessagePatterns == {"refused", "failed", "JSON"}
ExtraStatusCodes == {404, 508}

\* The *url.Error http.Client.Do wraps a failure in.
URLError(req, inner) ==
    NewError(SubSeq(req.Method, 1, 1) \o ToLower(After(req.Method, 1))
                \o " \"" \o URLString(req.URL) \o "\": " \o inner.msg,
             inner.is)

Canceled == NewError("context canceled", {"Canceled"})
DeadlineExceeded == NewError("context deadline exceeded", {"DeadlineExceeded"})

\* The errors of a transport call whose context is still live: a connection
\* failure, an error of the application's own hook, an expired timeout of the
\* transport.
TransportErrors(req) ==
    { URLError(req, NewError("dial tcp: connection refused", {})),
      NewError("test", {}),
      URLError(req, DeadlineExceeded) }

\* What the transport call returns: (resp, err).  Once the context is done the
\* call is aborted with the context's error.
Outcomes(ctx, req) ==
    IF ctx.err = "Canceled"
    THEN {[err |-> URLError(req, Canceled), resp |-> r] : r \in PartialResponses}
    ELSE IF ctx.err = "DeadlineExceeded"
    THEN {[err |-> URLError(req, DeadlineExceeded), resp |-> r] : r \in PartialResponses}
    ELSE {[err |-> Nil, resp |-> r] : r \in Responses}
         \cup {[err |-> e, resp |-> r] : e \in TransportErrors(req), r \in PartialResponses}

-----------------------------------------------------------------------------
(* State machine.                                                           *)

IdleCall ==
    [pc |-> "idle", method |-> "", url |-> "", request |-> Nil, passed |-> Nil,
     response |-> Nil, ctx |-> Nil, req |-> Nil, sent |-> 0, out |-> Nil,
     err |-> Nil, decodeCalls |-> 0, bodyOpen |-> FALSE]

NoClassification == [in |-> Nil, outs |-> << >>]

\* What generateURL returns: (url, err), or a runtime panic
NoResult == [url |-> "", err |-> Nil, panic |-> FALSE]

NoGeneration ==
    [pc |-> "idle", baseURL |-> "", paths |-> << >>, queryParams |-> NoValues,
     morePaths |-> << >>, moreParams |-> NoValues, sanitized |-> "",
     first |-> NoResult, second |-> NoResult, merged |-> NoResult]

Init ==
    /\ RetryableStatusCodes = DefaultRetryableStatusCodes
    /\ RetryableErrorMessages = DefaultRetryableErrorMessages
    /\ call = [c \in Calls |-> IdleCall]
    /\ cls = NoClassification
    /\ gen = NoGeneration
    /\ hdr = NoDecoration
    /\ txt = NoText
    /\ op = NoOperation
    /\ scan = NoScan

\* A call of executeRequest runs up to the transport call: it returns at once
\* when encoding or building fails, and otherwise the request is in flight.
Start(c, method, url, request, response, kind) ==
    /\ call[c].pc = "idle"
    /\ LET s == executeRequestSend(method, url, request)
       IN  call' = [call EXCEPT ![c] =
                [IdleCall EXCEPT
                    !.pc = IF s.err # Nil THEN "done" ELSE "inflight",
                    !.method = method, !.url = url, !.request = request,
                    !.passed = response, !.response = response,
                    !.ctx = [kind |-> kind, err |-> ""],
                    !.req = s.req, !.err = s.err,
                    !.sent = IF s.err # Nil THEN 0 ELSE 1]]
    /\ UNCHANGED <<RetryableStatusCodes, RetryableErrorMessages, cls, gen, hdr, txt, op, scan>>

\* The caller cancels the context of a request in flight.
CtxCancel(c) ==
    /\ call[c].pc = "inflight"
    /\ call[c].ctx.kind = "WithTimeout"
    /\ call[c].ctx.err = ""
    /\ call' = [call EXCEPT ![c].ctx.err = "Canceled"]
    /\ UNCHANGED <<RetryableStatusCodes, RetryableErrorMessages, cls, gen, hdr, txt, op, scan>>

\* The deadline of the context passes while the request is in flight.
CtxExpire(c) ==
    /\ call[c].pc = "inflight"
    /\ call[c].ctx.kind = "WithTimeout"
    /\ call[c].ctx.err = ""
    /\ call' = [call EXCEPT ![c].ctx.err = "DeadlineExceeded"]
    /\ UNCHANGED <<RetryableStatusCodes, RetryableErrorMessages, cls, gen, hdr, txt, op, scan>>

\* A call that hands a retryable failure to the transport a second time.
Returned_Retrying(called, out, r) ==
    [called EXCEPT !.pc = "done", !.out = out, !.err = r.err,
                   !.response = r.response, !.decodeCalls = r.decodeCalls,
                   !.sent = IF r.err # Nil /\ r.err.Retryable THEN 2 ELSE 1,
                   !.bodyOpen = /\ out.resp # Nil
                                /\ ~out.resp.Body.closed
                                /\ BodyCloses(out, called.response) = 0]

\* The state of a call that has returned with r, the transport having
\* returned out; bodyOpen, whether the body of a response the transport
\* handed back is open at the return.
Returned(called, out, r) ==
    [called EXCEPT !.pc = "done", !.out = out, !.err = r.err,
                   !.response = r.response, !.decodeCalls = r.decodeCalls,
                   !.bodyOpen = /\ out.resp # Nil
                                /\ ~out.resp.Body.closed
                                /\ BodyCloses(out, called.response) = 0]

\* Calls that decode into one target: what one call decodes lands in the
\* target of every call.
Completed_SharedTarget(calls, c, out) ==
    LET r == executeRequestReceive(out, calls[c].req, calls[c].response)
    IN  [d \in DOMAIN calls |->
            IF d = c THEN Returned(calls[c], out, r)
            ELSE [calls[d] EXCEPT !.response = r.response]]

\* The calls once the transport call of c has returned out: c has run to its
\* return, on its own request and its own target.
Completed(calls, c, out) ==
    [calls EXCEPT ![c] =
        Returned(calls[c], out,
                 executeRequestReceive(out, calls[c].req, calls[c].response))]

\* The transport call returns and executeRequest runs to its return.
Complete(c) ==
    /\ call[c].pc = "inflight"
    /\ \E out \in Outcomes(call[c].ctx, call[c].req) :
            call' = Completed(call, c, out)
    /\ UNCHANGED <<RetryableStatusCodes, RetryableErrorMessages, cls, gen, hdr, txt, op, scan>>

\* The caller has taken the result; the client is free for the next call.
Return(c) ==
    /\ call[c].pc = "done"
    /\ call' = [call EXCEPT ![c] = IdleCall]
    /\ UNCHANGED <<RetryableStatusCodes, RetryableErrorMessages, cls, gen, hdr, txt, op, scan>>

\* The embedding application extends RetryableErrorMessages.
AddRetryableErrorMessage(m) ==
    /\ Len(RetryableErrorMessages) < MaxMessages
    /\ RetryableErrorMessages' = Append(RetryableErrorMessages, m)
    /\ UNCHANGED <<RetryableStatusCodes, call, cls, gen, hdr, txt, op, scan>>

\* ... and takes the last entry off again.
DropRetryableErrorMessage ==
    /\ Len(RetryableErrorMessages) > 0
    /\ RetryableErrorMessages' =
            SubSeq(RetryableErrorMessages, 1, Len(RetryableErrorMessages) - 1)
    /\ UNCHANGED <<RetryableStatusCodes, call, cls, gen, hdr, txt, op, scan>>

\* The embedding application extends RetryableStatusCodes.
AddRetryableStatusCode(code) ==
    /\ Len(RetryableStatusCodes) < Len(DefaultRetryableStatusCodes) + MaxExtraCodes
    /\ RetryableStatusCodes' = Append(RetryableStatusCodes, code)
    /\ UNCHANGED <<RetryableErrorMessages, call, cls, gen, hdr, txt, op, scan>>

Next ==
    \/ \E c \in Calls, method \in Methods, url \in URLs, request \in Requests,
          response \in Targets, kind \in ContextKinds :
            Start(c, method, url, request, response, kind)
    \/ \E c \in Calls : CtxCancel(c)
    \/ \E c \in Calls : CtxExpire(c)
    \/ \E c \in Calls : Complete(c)
    \/ \E c \in Calls : Return(c)
    \/ \E m \in MessagePatterns : AddRetryableErrorMessage(m)
    \/ DropRetryableErrorMessage
    \/ \E code \in ExtraStatusCodes : AddRetryableStatusCode(code)

Spec == Init /\ [][Next]_vars

-----------------------------------------------------------------------------
(* The classifier on its own: isErrorRetryable applied, once and again, to  *)
(* one error under fixed tables.                                            *)

BoundedSeqs(S, n) == UNION {[1..k -> S] : k \in 0..n}

ClassifiedStatusTables ==
    {DefaultRetryableStatusCodes} \cup BoundedSeqs({403, 408, 500}, MaxTableLen)
ClassifiedMessageTables == BoundedSeqs({"", "test", "refused"}, MaxTableLen)

ClassifiedErrors ==
    {Nil} \cup
    {[Err |-> e, Message |-> m, Retryable |-> r, ServerResponse |-> b,
      StatusCode |-> code, URL |-> "https://h/u/tunnels"] :
        e \in {Nil, NewError("test", {}), ErrRequestFailed,
               NewError("dial tcp: connection refused", {})},
        m \in {"", "gone"}, r \in BOOLEAN, b \in {"", "busy"},
        code \in {0, 403, 408, 500, 503}}

InitClassify ==
    /\ RetryableStatusCodes \in ClassifiedStatusTables
    /\ RetryableErrorMessages \in ClassifiedMessageTables
    /\ call = [c \in Calls |-> IdleCall]
    /\ \E cE \in ClassifiedErrors : cls = [in |-> cE, outs |-> << >>]
    /\ gen = NoGeneration
    /\ hdr = NoDecoration
    /\ txt = NoText
    /\ op = NoOperation
    /\ scan = NoScan

\* isErrorRetryable(cE) on the error as the previous call left it
Classify ==
    /\ Len(cls.outs) < MaxClassifications
    /\ cls' = [cls EXCEPT !.outs =
                Append(@, isErrorRetryable(IF @ = << >> THEN cls.in ELSE @[Len(@)]))]
    /\ UNCHANGED <<RetryableStatusCodes, RetryableErrorMessages, call, gen, hdr, txt, op, scan>>

NextClassify == Classify

SpecClassify == InitClassify /\ [][NextClassify]_vars

-----------------------------------------------------------------------------
(* The URL functions on their own: the sanitizer and generateURL applied to *)
(* one base URL, and generateURL applied once more to its own output.       *)

MaxPaths == 2
MaxMorePaths == 1
MaxParams == 1

BaseURLs ==
    {"https://h", "https://h/v1/", "https://h/v1?k=1",
     "HTTPS://h/v1/u?k=1&j=a+b&k=%41#top", "https://h/a%3Fb?k=1",
     "https://h|x/v1?k=1", "/v1?j=2&z=%zz", "https://h//v1?m=&k"}

PathElements == {"u", "/tunnels/", ".."}
ParamKeys == {"", "k", "m"}
ParamLists == {NilList, List(<< >>), List(<< "" >>), List(<< "v" >>),
               List(<< "a b", "" >>)}

\* The url.Values a caller passes, of at most n keys
ParamsUpTo(n) ==
    UNION {[K -> ParamLists] : K \in {S \in SUBSET ParamKeys : Cardinality(S) <= n}}

\* What a second call adds
MoreParams == {NoValues, ("n" :> List(<< "w" >>)), ("k" :> List(<< "z" >>))}

InitURL ==
    /\ RetryableStatusCodes = DefaultRetryableStatusCodes
    /\ RetryableErrorMessages = DefaultRetryableErrorMessages
    /\ call = [c \in Calls |-> IdleCall]
    /\ cls = NoClassification
    /\ hdr = NoDecoration
    /\ \E baseURL \in BaseURLs, paths \in BoundedSeqs(PathElements, MaxPaths),
          queryParams \in ParamsUpTo(MaxParams) :
            gen = [NoGeneration EXCEPT !.pc = "new", !.baseURL = baseURL,
                                       !.paths = paths, !.queryParams = queryParams]
    /\ txt = NoText
    /\ op = NoOperation
    /\ scan = NoScan

\* util.SanitizedRawURL(baseURL)
Sanitize ==
    /\ gen.pc = "new"
    /\ gen' = [gen EXCEPT !.pc = "sanitized",
                          !.sanitized = SanitizedRawURL(gen.baseURL)]
    /\ UNCHANGED <<RetryableStatusCodes, RetryableErrorMessages, call, cls, hdr, txt, op, scan>>

\* generateURL(baseURL, paths, queryParams)
Generate ==
    /\ gen.pc = "sanitized"
    /\ gen' = [gen EXCEPT !.pc = "generated",
                          !.first = generateURL(gen.baseURL, gen.paths, gen.queryParams)]
    /\ UNCHANGED <<RetryableStatusCodes, RetryableErrorMessages, call, cls, hdr, txt, op, scan>>

\* generateURL(first, morePaths, moreParams), first the URL of the first call
GenerateOnOutput(morePaths, moreParams) ==
    /\ gen.pc = "generated"
    /\ gen.first.err = Nil /\ ~gen.first.panic
    /\ gen' = [gen EXCEPT !.pc = "composed",
                          !.morePaths = morePaths, !.moreParams = moreParams,
                          !.second = generateURL(gen.first.url, morePaths, moreParams)]
    /\ UNCHANGED <<RetryableStatusCodes, RetryableErrorMessages, call, cls, hdr, txt, op, scan>>

\* generateURL(baseURL, paths followed by morePaths, queryParams and
\* moreParams in one url.Values)
GenerateMerged ==
    /\ gen.pc = "composed"
    /\ DOMAIN gen.queryParams \cap DOMAIN gen.moreParams = {}
    /\ gen' = [gen EXCEPT !.pc = "merged",
                          !.merged = generateURL(gen.baseURL,
                                                 gen.paths \o gen.morePaths,
                                                 gen.queryParams @@ gen.moreParams)]
    /\ UNCHANGED <<RetryableStatusCodes, RetryableErrorMessages, call, cls, hdr, txt, op, scan>>

NextURL ==
    \/ Sanitize
    \/ Generate
    \/ \E morePaths \in BoundedSeqs(PathElements, MaxMorePaths),
          moreParams \in MoreParams :
            GenerateOnOutput(morePaths, moreParams)
    \/ GenerateMerged

SpecURL == InitURL /\ [][NextURL]_vars

-----------------------------------------------------------------------------
(* The headers on their own: a client as configured, the request as         *)
(* executeRequest hands it to the transport.                                *)

StaticHeaders ==
    ("accept" :> "text/html") @@ ("Content-Type" :> "text/plain")
    @@ ("user-agent" :> "agent/1") @@ ("Authorization" :> "Bearer t")
    @@ ("X-Trace" :> "1")

\* The clients of the model: any of the static headers, with or without
\* credentials, with or without a UserAgent where the field exists.
Clients ==
    {[revision |-> r, Headers |-> [k \in K |-> StaticHeaders[k]],
      UserAgent |-> ua, User |-> cred[1], APIKey |-> cred[2]] :
        r \in Revisions, K \in SUBSET DOMAIN StaticHeaders,
        ua \in {"", "test"}, cred \in {<<"sah", "password">>, <<"", "">>}}

InitHeaders ==
    /\ RetryableStatusCodes = DefaultRetryableStatusCodes
    /\ RetryableErrorMessages = DefaultRetryableErrorMessages
    /\ call = [c \in Calls |-> IdleCall]
    /\ cls = NoClassification
    /\ gen = NoGeneration
    /\ \E c \in Clients :
            /\ c.revision = "client.go" => c.UserAgent = ""
            /\ hdr = [pc |-> "built", c |-> c, Header |-> NoHeader]
    /\ txt = NoText
    /\ op = NoOperation
    /\ scan = NoScan

\* executeRequest sets the headers of the request it built.
SetHeaders ==
    /\ hdr.pc = "built"
    /\ hdr' = [hdr EXCEPT !.pc = "decorated", !.Header = Decorate(hdr.Header, hdr.c)]
    /\ UNCHANGED <<RetryableStatusCodes, RetryableErrorMessages, call, cls, gen, txt, op, scan>>

\* c.ExecuteRequest(req) / c.RoundTrip(req) / httpClient.Do(req)
Do ==
    /\ hdr.pc = "decorated"
    /\ hdr' = [hdr EXCEPT !.pc = "handed over"]
    /\ UNCHANGED <<RetryableStatusCodes, RetryableErrorMessages, call, cls, gen, txt, op, scan>>

NextHeaders == SetHeaders \/ Do

SpecHeaders == InitHeaders /\ [][NextHeaders]_vars

-----------------------------------------------------------------------------
(* The texts of an error on their own: Error() and Short() called, in       *)
(* either order, on one ClientError.                                        *)

\* The errors described: any combination of the fields the texts read.
\* 299 is a status http.StatusText has no text for.
DescribedErrors ==
    [Err : {Nil, ErrRequestFailed, NewError("Get \"https://h/u?key=s3\": EOF", {})},
     Message : {"", "tunnel is gone"},
     Retryable : BOOLEAN,
     ServerResponse : {"", "busy"},
     StatusCode : {0, 299, 404, 500},
     URL : {"https://h/u/tunnels?key=s3#top", "https://h|x/u", ""}]

InitText ==
    /\ RetryableStatusCodes = DefaultRetryableStatusCodes
    /\ RetryableErrorMessages = DefaultRetryableErrorMessages
    /\ call = [c \in Calls |-> IdleCall]
    /\ cls = NoClassification
    /\ gen = NoGeneration
    /\ hdr = NoDecoration
    /\ \E cE \in DescribedErrors :
            txt = [pc |-> "made", cE |-> cE, Error |-> "", Short |-> ""]
    /\ op = NoOperation
    /\ scan = NoScan

\* cE.Error()
CallError ==
    /\ txt.pc \in {"made", "short"}
    /\ txt' = [txt EXCEPT !.pc = IF @ = "made" THEN "error" ELSE "both",
                          !.Error = Error(txt.cE)]
    /\ UNCHANGED <<RetryableStatusCodes, RetryableErrorMessages, call, cls, gen, hdr, op, scan>>

\* cE.Short()
CallShort ==
    /\ txt.pc \in {"made", "error"}
    /\ txt' = [txt EXCEPT !.pc = IF @ = "made" THEN "short" ELSE "both",
                          !.Short = Short(txt.cE)]
    /\ UNCHANGED <<RetryableStatusCodes, RetryableErrorMessages, call, cls, gen, hdr, op, scan>>

NextText == CallError \/ CallShort

SpecText == InitText /\ [][NextText]_vars

-----------------------------------------------------------------------------
(* The public operations: one operation of one client, from its call to its *)
(* return, the server answering in between.                                 *)

\* The clients: a base URL that parses and one that does not, with and
\* without a tunnel owner.
OperationClients ==
    [revision : Revisions, BaseURL : {"https://h/rest/v1", "https://h|x/rest"},
     User : {"sah"}, APIKey : {"password"}, TunnelOwner : {"", "org"},
     Headers : {NoHeader}, UserAgent : {""}]

Invocations ==
    [name : {"listSharedTunnels", "listTunnels", "create"}, protocols : {<< "ipsec" >>}]
    \cup [name : {"listTunnels"}, protocols : {<< >>}]
    \cup [name : {"listAllTunnels"}, limit : {0, 5}]
    \cup [name : {"shutdown"}, id : {"t1"}, reason : {"sigterm", "out of memory", ""},
          wait : BOOLEAN, protocols : {<< "kgp" >>, << "ipsec" >>}]
    \cup [name : {"GetSCUpdates"}, platform : {"linux"}, version : {"4.9.1"},
          region : {"us-west", ""}]
    \cup [name : {"UpdateClientStatus", "TunnelState"}, id : {"t1"}]
    \cup [name : {"ReportCrash"}]

\* What the server, or the transport, answers to an operation
OperationBodies ==
    {Body(t, FALSE) : t \in {"{\"jobs_running\":2}", "{\"error\":\"not found\"}",
                             "{\"configuration\":{\"regions\":[]}}",
                             "{\"configuration\":{\"regions\":[{\"name\":\"us-west\"}]}}",
                             "<html>"}}

OperationOutcomes(req) ==
    {[err |-> Nil, resp |-> [StatusCode |-> s, Body |-> b]] :
        s \in {200, 404}, b \in OperationBodies}
    \cup {[err |-> URLError(req, NewError("dial tcp: connection refused", {})),
           resp |-> Nil]}

InitOperation ==
    /\ RetryableStatusCodes = DefaultRetryableStatusCodes
    /\ RetryableErrorMessages = DefaultRetryableErrorMessages
    /\ call = [c \in Calls |-> IdleCall]
    /\ cls = NoClassification
    /\ gen = NoGeneration
    /\ hdr = NoDecoration
    /\ txt = NoText
    /\ \E c \in OperationClients : op = [NoOperation EXCEPT !.pc = "ready", !.c = c]
    /\ scan = NoScan

\* The operation is called and runs up to the transport call; it returns at
\* once when the URL cannot be composed or the request cannot be built.
Invoke(o) ==
    /\ op.pc = "ready"
    /\ op.c.revision = "client.go" /\ "protocols" \in DOMAIN o => Len(o.protocols) = 1
    /\ LET u == OperationURL(op.c, o)
           s == executeRequestSend(OperationMethod(o), u.url, OperationRequest(o))
       IN  op' = IF u.panic
                 THEN [op EXCEPT !.pc = "panic", !.o = o]
                 ELSE IF u.err # Nil
                 THEN [op EXCEPT !.pc = "done", !.o = o,
                                 !.value = Uncomposed(o, u).value,
                                 !.err = Uncomposed(o, u).err]
                 ELSE IF s.err # Nil
                 THEN [op EXCEPT !.pc = "done", !.o = o, !.url = u.url,
                        !.value = Finished(o, u.url,
                            [err |-> s.err, response |-> OperationTarget(o)]).value,
                        !.err = Finished(o, u.url,
                            [err |-> s.err, response |-> OperationTarget(o)]).err]
                 ELSE [op EXCEPT !.pc = "inflight", !.o = o, !.url = u.url,
                                 !.req = s.req, !.sent = 1,
                                 !.Header = Decorate(NoHeader, op.c)]
    /\ UNCHANGED <<RetryableStatusCodes, RetryableErrorMessages, call, cls, gen, hdr, txt, scan>>

\* The transport call returns, executeRequest and the operation run to
\* their return.
Respond ==
    /\ op.pc = "inflight"
    /\ \E out \in OperationOutcomes(op.req) :
            LET r == executeRequestReceive(out, op.req, OperationTarget(op.o))
                f == Finished(op.o, op.url, r)
            IN  op' = [op EXCEPT !.pc = "done", !.out = out,
                                 !.value = f.value, !.err = f.err]
    /\ UNCHANGED <<RetryableStatusCodes, RetryableErrorMessages, call, cls, gen, hdr, txt, scan>>

NextOperation == (\E o \in Invocations : Invoke(o)) \/ Respond

SpecOperation == InitOperation /\ [][NextOperation]_vars

-----------------------------------------------------------------------------
(* The classifier statement by statement, under fixed tables.               *)

ScannedErrors ==
    {cE \in ClassifiedErrors :
        cE = Nil \/ (cE.Message = "" /\ cE.ServerResponse = "" /\ ~cE.Retryable)}

InitScan ==
    /\ RetryableStatusCodes \in ClassifiedStatusTables
    /\ RetryableErrorMessages \in ClassifiedMessageTables
    /\ call = [c \in Calls |-> IdleCall]
    /\ cls = NoClassification
    /\ gen = NoGeneration
    /\ hdr = NoDecoration
    /\ txt = NoText
    /\ op = NoOperation
    /\ \E cE \in ScannedErrors :
            scan = [NoScan EXCEPT !.pc = "called", !.in = cE, !.cE = cE]

\* if cE == nil { return }; if cE.Err != nil, client_errors.go:99-107
Enter ==
    /\ scan.pc = "called"
    /\ scan' = [scan EXCEPT !.pc = IF scan.cE = Nil THEN "returned"
                                   ELSE IF scan.cE.Err # Nil THEN "messages"
                                   ELSE "status",
                            !.i = 1]
    /\ UNCHANGED <<RetryableStatusCodes, RetryableErrorMessages, call, cls, gen, hdr, txt, op>>

\* One turn of the loop over RetryableErrorMessages, client_errors.go:108-114
MessageStep ==
    /\ scan.pc = "messages"
    /\ scan' = IF scan.i > Len(RetryableErrorMessages)
               THEN [scan EXCEPT !.pc = "status"]
               ELSE IF Contains(scan.cE.Err.msg, RetryableErrorMessages[scan.i])
               THEN MessageMatched(scan)
               ELSE [scan EXCEPT !.i = @ + 1]
    /\ UNCHANGED <<RetryableStatusCodes, RetryableErrorMessages, call, cls, gen, hdr, txt, op>>

\* if cE.StatusCode != 0, client_errors.go:122
StatusGuard ==
    /\ scan.pc = "status"
    /\ scan' = [scan EXCEPT !.statusChecked = TRUE, !.i = 1,
                            !.pc = IF scan.cE.StatusCode # 0 THEN "codes"
                                   ELSE "returned"]
    /\ UNCHANGED <<RetryableStatusCodes, RetryableErrorMessages, call, cls, gen, hdr, txt, op>>

\* One turn of the loop over RetryableStatusCodes, client_errors.go:124-128
StatusStep ==
    /\ scan.pc = "codes"
    /\ scan' = IF scan.i > Len(RetryableStatusCodes)
               THEN [scan EXCEPT !.pc = "returned"]
               ELSE [scan EXCEPT
                        !.cE.Retryable =
                            @ \/ scan.cE.StatusCode = RetryableStatusCodes[scan.i],
                        !.compared = @ + 1, !.i = @ + 1]
    /\ UNCHANGED <<RetryableStatusCodes, RetryableErrorMessages, call, cls, gen, hdr, txt, op>>

NextScan == Enter \/ MessageStep \/ StatusGuard \/ StatusStep

SpecScan == InitScan /\ [][NextScan]_vars

-----------------------------------------------------------------------------
(* Two calls of executeRequest on one client, interleaved in every way,     *)
(* the tables left alone.                                                   *)

PairCalls == {"c1", "c2"}

\* What the transport returns to the calls of a pair
PairOutcomes(req) ==
    {[err |-> Nil, resp |-> [StatusCode |-> s, Body |-> b]] :
        s \in {200, 404, 503},
        b \in {Body("{\"jobs_running\":2}", FALSE), Body("<html>", FALSE)}}
    \cup {[err |-> URLError(req, NewError("dial tcp: connection refused", {})),
           resp |-> Nil]}

InitPair ==
    /\ RetryableStatusCodes = DefaultRetryableStatusCodes
    /\ RetryableErrorMessages = << "refused" >>
    /\ call = [c \in PairCalls |-> IdleCall]
    /\ cls = NoClassification
    /\ gen = NoGeneration
    /\ hdr = NoDecoration
    /\ txt = NoText
    /\ op = NoOperation
    /\ scan = NoScan

NextPair ==
    \/ \E c \in PairCalls, url \in URLs, request \in {Nil, [jobs_running |-> 2]},
          response \in Targets :
            Start(c, "POST", url, request, response, "Background")
    \/ \E c \in PairCalls :
            Complete(c) /\ call'[c].out \in PairOutcomes(call[c].req)
    \/ \E c \in PairCalls : Return(c)

SpecPair == InitPair /\ [][NextPair]_vars

-----------------------------------------------------------------------------
(* Claims.                                                                  *)

\* Whether some entry of RetryableErrorMessages is contained in the message
\* of the error's cause, and whether some entry of RetryableStatusCodes is its
\* status code.
MessageListed(cE) ==
    /\ cE.Err # Nil
    /\ \E i \in DOMAIN RetryableErrorMessages :
            Contains(cE.Err.msg, RetryableErrorMessages[i])
StatusListed(cE) ==
    /\ cE.StatusCode # 0
    /\ \E i \in DOMAIN RetryableStatusCodes : cE.StatusCode = RetryableStatusCodes[i]

Classified == cls.in # Nil /\ Len(cls.outs) >= 1

\* C3: after isErrorRetryable, Retryable is true whenever the message of the
\* cause contains an entry of RetryableErrorMessages or the non-zero status
\* code is an entry of RetryableStatusCodes, either alone being enough; when
\* neither holds Retryable keeps the value it had before the call.
Thm_C3_ChecksAreOred ==
    Classified =>
        /\ MessageListed(cls.in) \/ StatusListed(cls.in) => cls.outs[1].Retryable
        /\ ~MessageListed(cls.in) /\ ~StatusListed(cls.in)
                => cls.outs[1].Retryable = cls.in.Retryable

\* An error marked by the status check alone, its message matching no entry.
Wit_C3_StatusAlone ==
    /\ Classified
    /\ ~cls.in.Retryable
    /\ cls.in.Err # Nil
    /\ RetryableErrorMessages # << >>
    /\ ~MessageListed(cls.in)
    /\ StatusListed(cls.in)
    /\ cls.outs[1].Retryable

\* C4: isErrorRetryable never turns Retryable from true to false, so a second
\* classification gives the flag of the first; an error with StatusCode 0 and
\* no cause keeps Retryable false; a nil error stays nil.
Thm_C4_Monotonic ==
    /\ \A k \in DOMAIN cls.outs :
            LET before == IF k = 1 THEN cls.in ELSE cls.outs[k - 1]
            IN  IF cls.in = Nil
                THEN cls.outs[k] = Nil
                ELSE /\ before.Retryable => cls.outs[k].Retryable
                     /\ k > 1 => cls.outs[k].Retryable = before.Retryable
                     /\ before.StatusCode = 0 /\ before.Err = Nil /\ ~before.Retryable
                            => ~cls.outs[k].Retryable

\* An error that came in marked retryable and matches neither table, after
\* two classifications.
Wit_C4_StaysRetryable ==
    /\ cls.in # Nil
    /\ Len(cls.outs) = 2
    /\ cls.in.Retryable
    /\ ~MessageListed(cls.in)
    /\ ~StatusListed(cls.in)
    /\ cls.outs[2].Retryable

-----------------------------------------------------------------------------
(* Claims about executeRequest.  A claim that speaks of the tables at the   *)
(* moment of the return is a property of the step in which the call         *)
(* returns; the tables that step reads are the unprimed ones.               *)

Done(c) == call[c].pc = "done"
Returns(c) == call[c].pc # "done" /\ call'[c].pc = "done"
DefaultTables ==
    /\ RetryableStatusCodes = DefaultRetryableStatusCodes
    /\ RetryableErrorMessages = DefaultRetryableErrorMessages

\* The *ClientError type among the values executeRequest can return.
IsClientError(e) ==
    DOMAIN e = {"Err", "Message", "Retryable", "ServerResponse", "StatusCode", "URL"}

\* The stage at which a returned call failed, read off its inputs and off what
\* the transport gave back; "none" when no stage failed.
FailedStage(k) ==
    IF k.request = Unencodable THEN "encode"
    ELSE IF k.method = "bad method" \/ k.url = "https://h|x/u?key=s3" THEN "build"
    ELSE IF k.out.err # Nil THEN "transmit"
    ELSE IF k.out.resp.StatusCode < 200 \/ k.out.resp.StatusCode > 299
         THEN IF k.out.resp.Body.readErr THEN "body read" ELSE "status check"
    ELSE IF k.passed # Nil
            /\ (k.out.resp.Body.readErr
                \/ k.out.resp.Body.text \in {"", "<html>"})
         THEN "decode"
    ELSE "none"

\* The classifier's verdict on an error the constructor left unmarked.
Verdict(cE) == MessageListed(cE) \/ StatusListed(cE)

\* C1: every failure of executeRequest, at whichever stage, is returned as a
\* non-nil *ClientError; nothing but nil or a *ClientError is ever returned.
Thm_C1_FailuresAreClientErrors ==
    \A c \in Calls :
        Done(c) =>
            /\ call[c].err = Nil \/ IsClientError(call[c].err)
            /\ FailedStage(call[c]) # "none" => call[c].err # Nil

\* A call that failed at the last stage, decoding a 2xx body.
Wit_C1_DecodeFailure ==
    \E c \in Calls :
        /\ Done(c)
        /\ FailedStage(call[c]) = "decode"
        /\ IsClientError(call[c].err)

\* C2 as claimed: the Retryable flag of every returned error is the
\* classifier's verdict on its cause and status code under the tables of that
\* moment.
CE_C2_AlwaysClassified ==
    [][\A c \in Calls :
        Returns(c) /\ call'[c].err # Nil
            => call'[c].err.Retryable = Verdict(call'[c].err)]_vars

\* C2, amended: the errors of a failed transport call and of a response
\* outside 2xx whose body was read carry the classifier's verdict under the
\* tables of that moment; the errors of a failed encode, build, body read or
\* decode are returned unclassified, with Retryable false.
Thm_C2_ClassifiedPaths ==
    [][\A c \in Calls :
        Returns(c) /\ call'[c].err # Nil
            => call'[c].err.Retryable =
                    IF FailedStage(call'[c]) \in {"transmit", "status check"}
                    THEN Verdict(call'[c].err)
                    ELSE FALSE]_vars

\* A transport failure without a status that the message table marked.
Wit_C2_MarkedByMessage ==
    \E c \in Calls :
        /\ Done(c)
        /\ FailedStage(call[c]) = "transmit"
        /\ call[c].err.StatusCode = 0
        /\ call[c].err.Retryable

\* C5: a transport error with the deadline-exceeded condition in its chain
\* gives StatusCode 408, whatever status a partial response carried, and the
\* error is retryable under the default tables.
Thm_C5_DeadlineForcing ==
    [][\A c \in Calls :
        Returns(c) /\ FailedStage(call'[c]) = "transmit"
                   /\ "DeadlineExceeded" \in call'[c].out.err.is
            => /\ call'[c].err.StatusCode = 408
               /\ DefaultTables => call'[c].err.Retryable]_vars

\* A deadline error that came with a partial response of status 503.
Wit_C5_PartialStatusOverwritten ==
    \E c \in Calls :
        /\ Done(c)
        /\ FailedStage(call[c]) = "transmit"
        /\ "DeadlineExceeded" \in call[c].out.err.is
        /\ call[c].out.resp # Nil
        /\ call[c].out.resp.StatusCode = 503
        /\ call[c].err.StatusCode = 408

\* C6 as claimed: a context cancelled or timed out while the request is in
\* flight gives an error with StatusCode 408 that is retryable under the
\* default tables.
CE_C6_CancelIsTimeout ==
    [][\A c \in Calls :
        Returns(c) /\ call[c].pc = "inflight" /\ call[c].ctx.err # ""
            => /\ call'[c].err # Nil
               /\ call'[c].err.StatusCode = 408
               /\ DefaultTables => call'[c].err.Retryable]_vars

\* C6, amended: a context that times out while the request is in flight gives
\* an error with StatusCode 408, retryable under the default tables; a context
\* that is cancelled gives an error that keeps the status of the partial
\* response, 0 when there is none, and is classified on that status.
Thm_C6_ExpiryIsTimeout ==
    [][\A c \in Calls :
        Returns(c) /\ call[c].pc = "inflight" /\ call[c].ctx.err # ""
            => /\ call'[c].err # Nil
               /\ call'[c].err.Err = call'[c].out.err
               /\ IF call[c].ctx.err = "DeadlineExceeded"
                  THEN /\ call'[c].err.StatusCode = 408
                       /\ DefaultTables => call'[c].err.Retryable
                  ELSE /\ call'[c].err.StatusCode =
                            IF call'[c].out.resp = Nil THEN 0
                            ELSE call'[c].out.resp.StatusCode
                       /\ call'[c].err.Retryable = Verdict(call'[c].err)
                       /\ DefaultTables /\ call'[c].err.StatusCode = 0
                            => ~call'[c].err.Retryable]_vars

\* A call whose context timed out in flight and that returned 408.
Wit_C6_Expired ==
    \E c \in Calls :
        /\ Done(c)
        /\ call[c].ctx.err = "DeadlineExceeded"
        /\ call[c].err.StatusCode = 408
        /\ call[c].err.Retryable

\* C7: a response outside [200, 300) whose body can be read gives a
\* ClientError with Err = ErrRequestFailed, the status of the response, the
\* whole body text as ServerResponse ("" for an empty body) and Retryable as
\* classified; under the default tables a 404 is not retryable and a 503 is.
Thm_C7_RequestFailed ==
    [][\A c \in Calls :
        Returns(c) /\ FailedStage(call'[c]) = "status check"
            => /\ IsClientError(call'[c].err)
               /\ call'[c].err.Err = ErrRequestFailed
               /\ call'[c].err.StatusCode = call'[c].out.resp.StatusCode
               /\ call'[c].err.ServerResponse = call'[c].out.resp.Body.text
               /\ call'[c].err.Retryable = Verdict(call'[c].err)
               /\ DefaultTables /\ call'[c].out.resp.StatusCode = 404
                    => ~call'[c].err.Retryable
               /\ DefaultTables /\ call'[c].out.resp.StatusCode = 503
                    => call'[c].err.Retryable]_vars

\* A 404 whose body says "not found", returned as a 404 that is not retryable.
Wit_C7_NotFound ==
    \E c \in Calls :
        /\ Done(c)
        /\ FailedStage(call[c]) = "status check"
        /\ call[c].out.resp.StatusCode = 404
        /\ call[c].err.StatusCode = 404
        /\ Contains(call[c].err.ServerResponse, "not found")
        /\ ~call[c].err.Retryable

\* C8 as claimed: under the default tables the error of a response outside 2xx
\* (its body read) is retryable exactly when the status is a 5xx code, 429,
\* 409 or 408.
CE_C8_Every5xx ==
    [][\A c \in Calls :
        Returns(c) /\ DefaultTables /\ FailedStage(call'[c]) = "status check"
            => call'[c].err.Retryable =
                    \/ call'[c].out.resp.StatusCode \in 500..599
                    \/ call'[c].out.resp.StatusCode \in {429, 409, 408}]_vars

\* C8, amended: under the default tables the error of a response outside 2xx
\* whose body was read is retryable exactly when the status is 500, 502, 503,
\* 504, 429, 409 or 408; every other status, the other 5xx codes (501, 508)
\* included, is not retryable.
Thm_C8_DefaultTable ==
    [][\A c \in Calls :
        Returns(c) /\ DefaultTables /\ FailedStage(call'[c]) = "status check"
            => call'[c].err.Retryable =
                    (call'[c].out.resp.StatusCode
                        \in {500, 502, 503, 504, 429, 409, 408})]_vars

\* A 508 returned as not retryable while the tables are the default ones.
Wit_C8_LoopDetected ==
    \E c \in Calls :
        /\ Done(c)
        /\ DefaultTables
        /\ FailedStage(call[c]) = "status check"
        /\ call[c].out.resp.StatusCode = 508
        /\ ~call[c].err.Retryable

\* C9 as claimed: whenever the transport returns no error and a status in
\* [200, 300), executeRequest returns nil.
CE_C9_Every2xxIsNil ==
    \A c \in Calls :
        Done(c) /\ call[c].out # Nil /\ call[c].out.err = Nil
                /\ Is2xx(call[c].out.resp.StatusCode)
            => call[c].err = Nil

\* C9, amended: a 2xx response that came without a transport error makes
\* executeRequest return nil when no response target is given, and then the
\* body is not decoded, whatever it holds; when a target is given, nil is
\* returned if the body decodes as JSON, and the target then holds the decoded
\* body (a body that does not decode is the decode failure of C10).
Thm_C9_Success ==
    \A c \in Calls :
        Done(c) /\ FailedStage(call[c]) = "none"
            => /\ call[c].err = Nil
               /\ IF call[c].passed = Nil
                  THEN call[c].decodeCalls = 0 /\ call[c].response = Nil
                  ELSE /\ call[c].decodeCalls = 1
                       /\ call[c].response =
                            IF call[c].out.resp.Body.text = "{\"jobs_running\":2}"
                            THEN [jobs_running |-> 2]
                            ELSE [error |-> "not found"]

\* A 2xx response with a body that is no JSON document and no response
\* target: nil is returned.
Wit_C9_NoTargetNoDecode ==
    \E c \in Calls :
        /\ Done(c)
        /\ call[c].out # Nil
        /\ call[c].out.err = Nil
        /\ call[c].out.resp.StatusCode = 204
        /\ call[c].out.resp.Body.text = "<html>"
        /\ call[c].passed = Nil
        /\ call[c].err = Nil

\* C10: a failed encode, a failed request construction, a failed read of the
\* body of a response outside 2xx and a failed decode of a 2xx body each give
\* StatusCode 500 and Retryable false, whatever the tables hold.
Thm_C10_DeterministicStages ==
    \A c \in Calls :
        Done(c) /\ FailedStage(call[c]) \in {"encode", "build", "body read", "decode"}
            => /\ call[c].err # Nil
               /\ call[c].err.StatusCode = 500
               /\ ~call[c].err.Retryable

\* A failed encode whose message matches an entry of the message table and
\* whose status is in the status table.
Wit_C10_EncodeFailureListed ==
    \E c \in Calls :
        /\ Done(c)
        /\ FailedStage(call[c]) = "encode"
        /\ MessageListed(call[c].err)
        /\ StatusListed(call[c].err)
        /\ ~call[c].err.Retryable

\* C11: a call of executeRequest invokes the transport at most once: not at
\* all when encode or build fails, and exactly once otherwise, whether the
\* error it returns is retryable or not.
Thm_C11_NoInternalRetry ==
    \A c \in Calls :
        /\ call[c].sent <= 1
        /\ call[c].pc = "inflight" => call[c].sent = 1
        /\ Done(c) =>
             call[c].sent = IF FailedStage(call[c]) \in {"encode", "build"}
                            THEN 0 ELSE 1

\* A call returned with a retryable error after one transport call.
Wit_C11_RetryableSentOnce ==
    \E c \in Calls :
        /\ Done(c)
        /\ call[c].err # Nil
        /\ call[c].err.Retryable
        /\ call[c].sent = 1

\* The query string and the fragment of a request URL as it is written: what
\* follows the first '?' up to the '#', and what follows the '#'.
QueryOf(url) == Cut(Cut(url, "#").before, "?").after
FragmentOf(url) == Cut(url, "#").after

\* s holds neither the query string nor the fragment of url.
Without(s, url) ==
    /\ QueryOf(url) # "" => ~Contains(s, QueryOf(url))
    /\ FragmentOf(url) # "" => ~Contains(s, FragmentOf(url))

\* C12 as claimed: the URL field of every ClientError of executeRequest, and
\* of MissingRegionsInformation for the same URL, holds neither the query
\* string nor the fragment of the request URL.
CE_C12_URLFieldSanitized ==
    \A c \in Calls :
        Done(c) /\ call[c].err # Nil
            => /\ Without(call[c].err.URL, call[c].url)
               /\ Without(MissingRegionsInformation(call[c].url).URL, call[c].url)

\* The request URL with another query string in the place of its own.
WithQuery(url, q) ==
    Cut(Cut(url, "#").before, "?").before \o "?" \o q
    \o (IF FragmentOf(url) # "" THEN "#" \o FragmentOf(url) ELSE "")

OtherQueries == {"token=t0"}

\* What the default client's failures are made of.
TransportCauses ==
    {NewError("dial tcp: connection refused", {}), DeadlineExceeded, Canceled}

\* The outcome out of the transport call for req, as the transport reports it
\* for the request other: the same response and the same cause.
SameOutcome(out, req, other) ==
    IF out.err # Nil /\ \E inner \in TransportCauses : out.err = URLError(req, inner)
    THEN [out EXCEPT !.err =
            URLError(other, CHOOSE inner \in TransportCauses :
                                out.err = URLError(req, inner))]
    ELSE out

\* The error of the call k had it been made with the request s was built
\* into and met the same outcome.
RerunFrom(k, s) ==
    IF s.err # Nil
    THEN s.err
    ELSE executeRequestReceive(SameOutcome(k.out, k.req, s.req), s.req, k.passed).err

\* The error of the call k had its URL been url.
Rerun(k, url) == RerunFrom(k, executeRequestSend(k.method, url, k.request))

\* C13 as claimed: two calls that differ only in the query string of the URL
\* and fail the same way return errors whose Error() and Short() texts are
\* the same.
CE_C13_ErrorTextHidesQuery ==
    \A c \in Calls :
        Done(c) /\ call[c].err # Nil
            => \A q \in OtherQueries :
                  /\ Error(call[c].err)
                        = Error(Rerun(call[c], WithQuery(call[c].url, q)))
                  /\ Short(call[c].err)
                        = Short(Rerun(call[c], WithQuery(call[c].url, q)))

-----------------------------------------------------------------------------
(* Claims about the sanitizer and generateURL.                              *)

\* The base URLs url.Parse rejects.
Malformed == {"https://h|x/v1?k=1"}

\* The URL without its query string and fragment, as it is written.
Hierarchy(url) == Cut(Cut(url, "#").before, "?").before

\* scheme://host followed by the path, read off the URL as it is written:
\* the scheme in lower case, the path with its escapes decoded.
SchemeHostPath(url) ==
    IF Contains(Hierarchy(url), "://")
    THEN ToLower(Before(Hierarchy(url), Index(Hierarchy(url), ":")))
         \o ":" \o Unescape(After(Hierarchy(url), Index(Hierarchy(url), ":"))).s
    ELSE "://" \o Unescape(Hierarchy(url)).s

HasSanitized == gen.pc \in {"sanitized", "generated", "composed", "merged"}

\* C14 as claimed: for a URL that parses and has a query string the sanitizer
\* returns scheme://host and the path, and the result holds no '?' and no
\* fragment; a string that does not parse is returned unchanged.
CE_C14_NoQuestionMark ==
    HasSanitized =>
        IF gen.baseURL \in Malformed
        THEN gen.sanitized = gen.baseURL
        ELSE QueryOf(gen.baseURL) # "" =>
                /\ gen.sanitized = SchemeHostPath(gen.baseURL)
                /\ ~Contains(gen.sanitized, "?")
                /\ ~Contains(gen.sanitized, "#")

\* C14, amended: for a URL that parses and has a query string the sanitizer
\* returns scheme://host followed by the decoded path; the result holds
\* nothing of the query string or of the fragment, and it holds a '?' only
\* where the path has an escaped one (%3F); a string that does not parse is
\* returned unchanged.
Thm_C14_Sanitizer ==
    HasSanitized =>
        IF gen.baseURL \in Malformed
        THEN gen.sanitized = gen.baseURL
        ELSE QueryOf(gen.baseURL) # "" =>
                /\ gen.sanitized = SchemeHostPath(gen.baseURL)
                /\ Without(gen.sanitized, gen.baseURL)
                /\ Contains(gen.sanitized, "?")
                        => Contains(Hierarchy(gen.baseURL), "%3F")

\* A URL with two query parameters and a fragment, sanitized.
Wit_C14_QueryStripped ==
    /\ HasSanitized
    /\ gen.baseURL = "HTTPS://h/v1/u?k=1&j=a+b&k=%41#top"
    /\ gen.sanitized = "https://h/v1/u"

HasGenerated == gen.pc \in {"generated", "composed", "merged"}

\* The query parameters of a URL, as url.Values.
Parameters(url) == Query(Parse(url))

\* The entry of key k is one generateURL is to take: the key is not empty,
\* the list is not empty and its first value is not empty.
Given(queryParams, k) ==
    /\ k # ""
    /\ ~queryParams[k].nil
    /\ queryParams[k].vs # << >>
    /\ queryParams[k].vs[1] # ""

\* C15: when generateURL returns a URL, each key of queryParams that is not
\* empty and has a list with a first value that is not empty has exactly that
\* list in the URL, whatever the base had under the key, and every other
\* parameter of the base is in the URL with its values unchanged.
Thm_C15_QueryMerge ==
    HasGenerated /\ gen.baseURL \notin Malformed /\ ~gen.first.panic =>
        /\ gen.first.err = Nil
        /\ \A k \in DOMAIN gen.queryParams :
              Given(gen.queryParams, k) =>
                  /\ k \in DOMAIN Parameters(gen.first.url)
                  /\ Parameters(gen.first.url)[k] = gen.queryParams[k].vs
        /\ \A j \in DOMAIN Parameters(gen.baseURL) :
              ~(j \in DOMAIN gen.queryParams /\ Given(gen.queryParams, j)) =>
                  /\ j \in DOMAIN Parameters(gen.first.url)
                  /\ Parameters(gen.first.url)[j] = Parameters(gen.baseURL)[j]

\* The base has k=1 and j, and k is passed with two values: the URL has the
\* two values under k and none of the base's.
Wit_C15_Replaced ==
    /\ HasGenerated
    /\ gen.baseURL = "HTTPS://h/v1/u?k=1&j=a+b&k=%41#top"
    /\ gen.paths = << >>
    /\ gen.queryParams = ("k" :> List(<< "a b", "" >>))
    /\ gen.first.url = "https://h/v1/u?j=a+b&k=a+b&k=#top"

\* C16 as claimed: an entry of queryParams with an empty key, with an empty
\* list (nil, or of length 0 and not nil) or with an empty first value is
\* skipped: generateURL neither fails nor crashes on it, and what the base
\* has under the same key stays as it is.
CE_C16_SkippedSilently ==
    HasGenerated /\ gen.baseURL \notin Malformed =>
        /\ ~gen.first.panic
        /\ gen.first.err = Nil
        /\ \A k \in DOMAIN gen.queryParams :
              ~Given(gen.queryParams, k) =>
                  IF k \in DOMAIN Parameters(gen.baseURL)
                  THEN /\ k \in DOMAIN Parameters(gen.first.url)
                       /\ Parameters(gen.first.url)[k] = Parameters(gen.baseURL)[k]
                  ELSE k \notin DOMAIN Parameters(gen.first.url)

\* Two URLs have the same keys with the same values.
SameParameters(a, b) ==
    /\ DOMAIN Parameters(a) = DOMAIN Parameters(b)
    /\ \A k \in DOMAIN Parameters(a) : Parameters(a)[k] = Parameters(b)[k]

CE_C18_Composes ==
    gen.pc = "merged" /\ ~gen.second.panic /\ ~gen.merged.panic =>
        /\ gen.second.err = Nil
        /\ gen.merged.err = Nil
        /\ gen.second.url = gen.merged.url

\* The elements of a path between its separators, the empty ones left out.
Elements(p) == SelectSeq(Split(p, "/"), LAMBDA e : e # "")

\* The elements of the paths of a list, in the order of the list.
RECURSIVE ElementsOfAll(_)
ElementsOfAll(paths) ==
    IF paths = << >> THEN << >>
    ELSE Elements(Head(paths)) \o ElementsOfAll(Tail(paths))

NoDotDot(paths) == \A i \in 1..Len(paths) : paths[i] # ".."

\* C19: generateURL on a base that does not parse returns an error and "".
\* On a base that parses it keeps scheme and host and every parameter of the
\* base it is not given a new list for; with no paths the path of the base
\* stays, and with paths (none of them "..") the path of the URL is the
\* elements of the base's path followed by the elements of each path in the
\* order given, one separator between them and one in front.
Thm_C19_PathJoin ==
    HasGenerated /\ ~gen.first.panic =>
        IF gen.baseURL \in Malformed
        THEN gen.first.url = "" /\ gen.first.err # Nil
        ELSE /\ gen.first.err = Nil
             /\ Parse(gen.first.url).ok
             /\ Parse(gen.first.url).Scheme = Parse(gen.baseURL).Scheme
             /\ Parse(gen.first.url).Host = Parse(gen.baseURL).Host
             /\ DOMAIN Parameters(gen.baseURL) \subseteq DOMAIN Parameters(gen.first.url)
             /\ gen.paths = << >> =>
                    Parse(gen.first.url).Path = Parse(gen.baseURL).Path
             /\ gen.paths # << >> /\ NoDotDot(gen.paths) =>
                    Parse(gen.first.url).Path =
                        "/" \o JoinStrings(Elements(Parse(gen.baseURL).Path)
                                            \o ElementsOfAll(gen.paths), "/")

\* A base with a slash at its end and a path with one at either end.
Wit_C19_SlashesCollapsed ==
    /\ HasGenerated
    /\ gen.baseURL = "https://h/v1/"
    /\ gen.paths = << "u", "/tunnels/" >>
    /\ DOMAIN gen.queryParams = {}
    /\ gen.first.url = "https://h/v1/u/tunnels"

-----------------------------------------------------------------------------
(* Claims about the headers of a request                                    *)

\* Has(header, key, value): the header carries the key with this value.
Has(header, key, value) ==
    key \in DOMAIN header /\ header[key] = value

\* C20: every request handed to the transport carries Basic authentication
\* built from the client's user and key, Accept: application/json and
\* Content-Type: application/json whatever the static Headers say, and a
\* User-Agent that is the client's custom value when one is set and
\* "SauceLabs/tunnelrest-go" otherwise.  Stated for both revisions of
\* executeRequest; the one of client.go sets no User-Agent.
CE_C20_Decorated ==
    hdr.pc = "handed over" =>
        /\ Has(hdr.Header, "Authorization",
               "Basic " \o Base64[hdr.c.User \o ":" \o hdr.c.APIKey])
        /\ Has(hdr.Header, "Accept", "application/json")
        /\ Has(hdr.Header, "Content-Type", "application/json")
        /\ Has(hdr.Header, "User-Agent",
               IF hdr.c.UserAgent # "" THEN hdr.c.UserAgent
               ELSE "SauceLabs/tunnelrest-go")

-----------------------------------------------------------------------------
(* Claims about the texts of an error                                       *)

\* The decimal digits of a status code and the text net/http has for it
StatusPart(code) == ToString(code) \o " (" \o StatusText(code) \o ")"

\* C21: Short() is "<status> (<statusText>)" when StatusCode is non-zero and
\* "Failed to reach <sanitized URL>" when it is 0; Error() is Message when
\* Message is non-empty, and otherwise "URL <sanitized URL>" followed by the
\* status (only if non-zero), the cause (only if non-nil) and the server
\* response (only if non-empty), in that order.
Thm_C21_Texts ==
    LET cE == txt.cE
        url == SanitizedRawURL(cE.URL)
        status == IF cE.StatusCode = 0 THEN "" ELSE " - " \o StatusPart(cE.StatusCode)
        cause == IF cE.Err = Nil THEN "" ELSE " Error: " \o cE.Err.msg
        server == IF cE.ServerResponse = "" THEN ""
                  ELSE ". Server response: " \o cE.ServerResponse
    IN  /\ txt.pc \in {"short", "both"} =>
              txt.Short = IF cE.StatusCode # 0 THEN StatusPart(cE.StatusCode)
                          ELSE "Failed to reach " \o url
        /\ txt.pc \in {"error", "both"} =>
              txt.Error = IF cE.Message # "" THEN cE.Message
                          ELSE "URL " \o url \o status \o cause \o server

\* Both texts taken of an error with a Message, a status, a cause and a
\* server response, and of one with none of them.
Wit_C21_MessageWins ==
    /\ txt.pc = "both"
    /\ txt.cE.Message # "" /\ txt.cE.StatusCode = 404
    /\ txt.cE.Err # Nil /\ txt.cE.ServerResponse # ""
    /\ txt.Error = "tunnel is gone"
    /\ txt.Short = "404 (Not Found)"

-----------------------------------------------------------------------------
(* Claims about the public operations                                       *)

\* The operation has handed a request to the transport.
Sent == op.pc \in {"inflight", "done"} /\ op.sent = 1

\* C22: the list, state, create and shutdown operations address the path of
\* TunnelOwner when it is non-empty and of User otherwise, UpdateClientStatus
\* and ReportCrash always address the path of User, and in every case the
\* Basic-auth identity is User.
Thm_C22_OwnerSelection ==
    Sent =>
        /\ op.o.name \in {"listSharedTunnels", "listTunnels", "listAllTunnels",
                           "TunnelState", "create", "shutdown"} =>
                HasPrefix(op.req.URL.Path,
                          "/rest/v1/"
                            \o (IF op.c.TunnelOwner # "" THEN op.c.TunnelOwner ELSE op.c.User)
                            \o "/")
        /\ op.o.name \in {"UpdateClientStatus", "ReportCrash"} =>
                HasPrefix(op.req.URL.Path, "/rest/v1/" \o op.c.User \o "/")
        /\ "Authorization" \in DOMAIN op.Header
        /\ op.Header["Authorization"]
                = "Basic " \o Base64[op.c.User \o ":" \o op.c.APIKey]

\* A client with a tunnel owner: a shutdown addressed to the owner's tunnel
\* and signed by the user.
Wit_C22_OwnerAddressed ==
    /\ Sent /\ op.c.TunnelOwner = "org" /\ op.c.User = "sah"
    /\ op.o.name = "shutdown"
    /\ op.req.URL.Path = "/rest/v1/org/tunnels/t1"
    /\ op.Header["Authorization"] = "Basic c2FoOnBhc3N3b3Jk"

\* The exchange of the operation succeeded: a 2xx response whose body is a
\* JSON document.
Exchanged ==
    /\ op.pc = "done" /\ op.out # Nil /\ op.out.err = Nil
    /\ op.out.resp.StatusCode \in 200..299
    /\ op.out.resp.Body.text \in DOMAIN JSONDocs

\* C23: when the exchange succeeded and the decoded response has no regions,
\* GetSCUpdates returns the decoded response and a ClientError with
\* Err == ErrMissingRegions, StatusCode 500, Retryable false and the
\* sanitized updates URL; with at least one region it returns the response
\* and nil.
Thm_C23_MissingRegions ==
    op.o # Nil /\ op.o.name = "GetSCUpdates" /\ Exchanged =>
        LET resp == JSONDocs[op.out.resp.Body.text]
            none == \/ "configuration" \notin DOMAIN resp
                    \/ resp.configuration.regions = << >>
        IN  /\ op.value = resp
            /\ none =>
                    /\ op.err # Nil
                    /\ op.err.Err = ErrMissingRegions
                    /\ op.err.StatusCode = 500
                    /\ ~op.err.Retryable
                    /\ op.err.URL =
                            "https://h/rest/v1/"
                                \o (IF op.c.TunnelOwner # "" THEN op.c.TunnelOwner
                                    ELSE op.c.User)
                                \o "/tunnels/info/updates"
            /\ ~none => op.err = Nil

\* A 200 whose document has an empty list of regions, and one with a region.
Wit_C23_NoRegions ==
    /\ op.o # Nil /\ op.o.name = "GetSCUpdates" /\ Exchanged
    /\ op.out.resp.Body.text = "{\"configuration\":{\"regions\":[]}}"
    /\ op.err # Nil /\ op.err.Err = ErrMissingRegions
    /\ op.err.URL = "https://h/rest/v1/sah/tunnels/info/updates"
    /\ op.value = [configuration |-> [regions |-> << >>]]

\* url.Values.Get: the first value of a key, "" when the key is absent
Get(v, key) == IF key \in DOMAIN v THEN v[key][1] ELSE ""

\* The owner an operation of the client addresses
Owner == IF op.c.TunnelOwner # "" THEN op.c.TunnelOwner ELSE op.c.User

\* The request of a shutdown: one DELETE to base/owner/segment/id whose
\* query has wait and reason.
ShutdownRequest(segment) ==
    /\ op.sent = 1
    /\ op.req.Method = "DELETE"
    /\ op.req.URL.Scheme = "https" /\ op.req.URL.Host = "h"
    /\ op.req.URL.Path = "/rest/v1/" \o Owner \o "/" \o segment \o "/" \o op.o.id
    /\ Get(Query(op.req.URL), "wait") = (IF op.o.wait THEN "1" ELSE "0")
    /\ Get(Query(op.req.URL), "reason") = op.o.reason
    /\ DOMAIN Query(op.req.URL) \subseteq {"wait", "reason"}

\* The return of a shutdown whose URL could not be composed
ShutdownUncomposed ==
    op.pc = "done" /\ ~Parse(op.c.BaseURL).ok =>
        op.value = -1 /\ op.err # Nil /\ ~IsClientError(op.err) /\ op.sent = 0

-----------------------------------------------------------------------------
(* Claims about the control flow of the classifier                          *)

\* C25, as claimed: isErrorRetryable runs both checks on every non-nil
\* error; after the message check has matched and set Retryable the
\* status-code check is still executed, and the status-code scan goes over
\* the whole table.
CE_C25_BothChecksRun ==
    scan.pc = "returned" /\ scan.in # Nil =>
        /\ scan.statusChecked
        /\ scan.cE.StatusCode # 0 => scan.compared = Len(RetryableStatusCodes)

\* C25, amended: a message match sets Retryable and returns at once, the
\* status-code check not executed; without a message match the status-code
\* check is executed, and for a non-zero status the scan compares every
\* entry of the table, a match or not.  Either way the error is left as
\* isErrorRetryable leaves it.
Thm_C25_ChecksRun ==
    /\ scan.matched =>
            scan.pc = "returned" /\ scan.cE.Retryable /\ ~scan.statusChecked
    /\ scan.pc = "returned" /\ scan.in # Nil /\ ~scan.matched =>
            /\ scan.statusChecked
            /\ scan.compared = IF scan.cE.StatusCode # 0
                               THEN Len(RetryableStatusCodes) ELSE 0
    /\ scan.pc = "returned" => scan.cE = isErrorRetryable(scan.in)

\* The message matched on an error whose status is in the table: returned
\* retryable, no status code compared.
Wit_C25_EarlyReturn ==
    /\ scan.pc = "returned" /\ scan.matched
    /\ \E i \in 1..Len(RetryableStatusCodes) :
            RetryableStatusCodes[i] = scan.cE.StatusCode
    /\ scan.compared = 0

-----------------------------------------------------------------------------
(* Claims about the stages and the frame of executeRequest                  *)

\* C26: executeRequest is a linear pipeline in which a failure at one stage
\* ends the call and no later stage runs: the transport is never invoked
\* after an encode or build failure, the decoder runs only when every stage
\* before it succeeded, and on every path that fails before decode (encode,
\* build, transmit, body read, status check) the caller's response target is
\* exactly as passed in.
Thm_C26_Pipeline ==
    \A c \in Calls :
        Done(c) =>
            LET k == call[c]
                stage == FailedStage(k)
            IN  /\ stage \in {"encode", "build"} =>
                        k.sent = 0 /\ k.out = Nil /\ k.req = Nil
                /\ stage \in {"encode", "build", "transmit", "body read",
                               "status check"} =>
                        /\ k.err # Nil
                        /\ k.decodeCalls = 0
                        /\ k.response = k.passed
                /\ k.decodeCalls = (IF stage \in {"decode", "none"} /\ k.passed # Nil
                                    THEN 1 ELSE 0)
                /\ stage = "none" <=> k.err = Nil

\* A 404 whose body is a JSON document, the caller having passed a target:
\* the target is as it was passed.
Wit_C26_TargetUntouched ==
    \E c \in Calls :
        /\ Done(c)
        /\ FailedStage(call[c]) = "status check"
        /\ call[c].out.resp.Body.text = "{\"jobs_running\":2}"
        /\ call[c].passed = ZeroValue
        /\ call[c].response = ZeroValue

\* C27: on a transport failure that is not a deadline expiry the returned
\* ClientError carries the transport's error as Err and the status of the
\* partial response when one came back with a non-zero status, and 0
\* otherwise; with StatusCode 0 it is Retryable only if its message matches
\* an entry of RetryableErrorMessages, so never under the empty table.
Thm_C27_TransportFailure ==
    [][\A c \in Calls :
        Returns(c) /\ FailedStage(call'[c]) = "transmit"
                   /\ "DeadlineExceeded" \notin call'[c].out.err.is
            => LET k == call'[c]
               IN  /\ IsClientError(k.err)
                   /\ k.err.Err = k.out.err
                   /\ k.err.StatusCode =
                           (IF k.out.resp # Nil /\ k.out.resp.StatusCode # 0
                            THEN k.out.resp.StatusCode ELSE 0)
                   /\ k.err.StatusCode = 0 =>
                           (k.err.Retryable <=>
                               \E i \in 1..Len(RetryableErrorMessages) :
                                   Contains(k.out.err.msg, RetryableErrorMessages[i]))
                   /\ k.err.StatusCode = 0 /\ RetryableErrorMessages = << >> =>
                           ~k.err.Retryable]_vars

\* A refused connection that came back with a partial 503.
Wit_C27_PartialStatus ==
    \E c \in Calls :
        /\ Done(c)
        /\ FailedStage(call[c]) = "transmit"
        /\ "DeadlineExceeded" \notin call[c].out.err.is
        /\ call[c].out.resp # Nil
        /\ call[c].out.resp.StatusCode = 503
        /\ call[c].err.StatusCode = 503

\* C28: the classification changes no field of the error other than
\* Retryable: a returned ClientError has Err, StatusCode, ServerResponse, URL
\* and Message as its constructor set them.  No step of executeRequest
\* writes RetryableStatusCodes or RetryableErrorMessages, and from its return
\* until the caller has taken it the error does not change.
Thm_C28_Frame ==
    [][\A c \in Calls :
        /\ call'[c] # call[c] =>
                /\ RetryableStatusCodes' = RetryableStatusCodes
                /\ RetryableErrorMessages' = RetryableErrorMessages
        /\ Done(c) /\ call'[c].pc = "done" => call'[c].err = call[c].err
        /\ Returns(c) /\ FailedStage(call'[c]) \in {"transmit", "status check"} =>
                LET k == call'[c]
                    sent == k.out.err = Nil
                IN  /\ k.err.Err = (IF sent THEN ErrRequestFailed ELSE k.out.err)
                    /\ k.err.StatusCode =
                            (IF sent THEN k.out.resp.StatusCode
                             ELSE IF "DeadlineExceeded" \in k.out.err.is THEN 408
                             ELSE IF k.out.resp # Nil THEN k.out.resp.StatusCode
                             ELSE 0)
                    /\ k.err.ServerResponse = (IF sent THEN k.out.resp.Body.text ELSE "")
                    /\ k.err.URL = "https://h/u/tunnels"
                    /\ k.err.Message = ""]_vars

\* A 503 with a body, classified retryable: the body is in the error.
Wit_C28_MarkedWithBody ==
    \E c \in Calls :
        /\ Done(c)
        /\ FailedStage(call[c]) = "status check"
        /\ call[c].err.Retryable
        /\ call[c].err.StatusCode = 503
        /\ call[c].err.ServerResponse = "{\"error\":\"not found\"}"

-----------------------------------------------------------------------------
(* Claims about concurrent calls                                            *)

\* What a call returns when it runs alone on its inputs, the transport
\* returning what it returned to the call: [err, response]
Alone(k) ==
    LET s == executeRequestSend(k.method, k.url, k.request)
    IN  IF s.err # Nil
        THEN [err |-> s.err, response |-> k.passed]
        ELSE LET r == executeRequestReceive(k.out, s.req, k.passed)
             IN  [err |-> r.err, response |-> r.response]

\* C29: for any interleaving of two executeRequest calls on one client, the
\* tables not mutated, each call returns the error and leaves the response
\* target that it would when run alone, whatever the other call is doing,
\* and a request in flight stays as the call built it.
Thm_C29_Independent ==
    \A c \in PairCalls :
        /\ Done(c) =>
                /\ call[c].err = Alone(call[c]).err
                /\ call[c].response = Alone(call[c]).response
        /\ call[c].pc = "inflight" =>
                /\ call[c].response = call[c].passed
                /\ call[c].req =
                        executeRequestSend(call[c].method, call[c].url,
                                           call[c].request).req

\* Both calls returned, one with a 404 and its target as passed, the other
\* with nil and its target filled.
Wit_C29_Interleaved ==
    /\ Done("c1") /\ Done("c2")
    /\ call["c1"].err # Nil /\ call["c1"].err.StatusCode = 404
    /\ call["c1"].passed = ZeroValue /\ call["c1"].response = ZeroValue
    /\ call["c2"].err = Nil /\ call["c2"].response = [jobs_running |-> 2]

-----------------------------------------------------------------------------
(* Claims about the response body                                           *)

\* The transport handed the call a response
Obtained(k) == k.pc = "done" /\ k.sent >= 1 /\ k.out.resp # Nil

\* C30: every response body executeRequest obtained is closed when the call
\* has returned, on every path on which the transport handed back a
\* response, that of a transport error with a partial response included.
CE_C30_BodyClosed ==
    \A c \in Calls : Obtained(call[c]) => ~call[c].bodyOpen

====
